---- MODULE Spec2Model ----
(***************************************************************************)
(* A model of the local_cdn DNS service: the domain router (NameTree,      *)
(* DomainAction), the IN-query gate, the Block / Fixed / Forward actions   *)
(* and the Upstream resolver handle, the UnixService action that looks for *)
(* a socket path, and of the caching HTTP proxy (CacheProxy) with its      *)
(* store, its cache policy and the upstream server behind it.              *)
(*                                                                         *)
(* A DNS name is a sequence of labels in wire order (leftmost label        *)
(* first); a label is a sequence of bytes.  The root name is <<>>.         *)
(***************************************************************************)
EXTENDS Integers, Sequences, FiniteSets, TLC

VARIABLES
    config,     \* domain::Config: [default_action, actions: Seq([domains, action])]
    router,     \* DomainAction built from config: [default, arcs, domains]
    request,    \* the request being handled (NoRequest when idle)
    pc,         \* position of the request handler
    selected,   \* Arc handle the router dispatched to (0: default, NoHandle: none)
    upstream,   \* the upstream table: name -> Upstream handle
    fwd,        \* the running Forward future: [i, code, elapsed, late, used]
    queried,    \* names of the upstreams whose resolver was asked, in order
    sent,       \* the responses handed to send_response, in order
    info,       \* the ResponseInfo the handler returned ({} while it runs)
    built,      \* resolver instances constructed so far
    task,       \* the callers of Upstream::lookup: [pc, inst, seen, result, expired]
    retired,    \* ids of the instances a returned lookup timed out on
    calls,      \* calls of Upstream::lookup made so far
    timeouts,   \* lookups whose deadline expired so far
    fs,         \* the filesystem paths that exist
    probes,     \* what the last UnixService checks found: Seq([exists, branch])
    cache,      \* the cache store of the proxy: key -> stored bytes
    now,        \* SystemTime::now()
    origin,     \* the version of the content the upstream server holds
    client,     \* the requests the proxy is serving: client -> ProxyFuture state
    proc,       \* the DNS process from run() on: its servers, its exit code
    gen,        \* the run of the certificate tool and the files it works on
    acc         \* the accept loop of the proxy and the connections it spawned

dnsVars == <<config, router, request, pc, selected, fwd, queried, sent, info>>

upVars == <<built, task, retired, calls, timeouts>>

fsVars == <<fs, probes>>

pxVars == <<cache, now, origin, client>>

osVars == <<proc, gen, acc>>

vars == <<config, router, request, pc, selected, upstream, fwd, queried, sent, info,
          built, task, retired, calls, timeouts, fs, probes, cache, now, origin, client, proc, gen, acc>>

(***************************************************************************)
(* Bounds of the model.                                                    *)
(***************************************************************************)
MaxLabels == 2       \* labels in a query name
MaxEntries == 2      \* entries of Config.actions

(***************************************************************************)
(* Names.                                                                  *)
(***************************************************************************)
\* the labels "a", "A" and "xa" as bytes
LabelSet == { <<97>>, <<65>>, <<120, 97>> }

RECURSIVE SeqsUpTo(_, _)
SeqsUpTo(S, n) ==
    IF n = 0 THEN { <<>> }
    ELSE LET P == SeqsUpTo(S, n - 1)
         IN  P \cup { Append(p, x) : p \in { q \in P : Len(q) = n - 1 }, x \in S }

\* names a client can put in a question
QueryNames == SeqsUpTo(LabelSet, MaxLabels)

\* names a configuration lists: ".", "a.", "A.", "xa.", "a.a.", "xa.a.", "A.a.", "a.xa."
CfgNames ==
    { <<>>, << <<97>> >>, << <<65>> >>, << <<120, 97>> >>,
      << <<97>>, <<97>> >>, << <<120, 97>>, <<97>> >>,
      << <<65>>, <<97>> >>, << <<97>>, <<120, 97>> >> }

\* DomainConfig.domains: one name, or one of a few two-name lists
CfgDomainLists ==
    { << n >> : n \in CfgNames }
    \cup { << << <<97>> >>, << <<97>>, <<97>> >> >>,
           << << <<97>>, <<97>> >>, << <<97>>, <<97>> >> >> }

\* u8::to_ascii_lowercase, as LowerName applies it to every byte of a name
to_ascii_lowercase(b) == IF b >= 65 /\ b <= 90 THEN b + 32 ELSE b

LowerLabel(l) == [i \in 1..Len(l) |-> to_ascii_lowercase(l[i])]

\* hickory_server's LowerName: the name request.query().name() hands out
LowerName(n) == [i \in 1..Len(n) |-> LowerLabel(n[i])]

\* name.iter().rev()
Rev(s) == [i \in 1..Len(s) |-> s[Len(s) + 1 - i]]

(***************************************************************************)
(* NameTree<A>: a node is named by the path of labels from the root; the   *)
(* tree is a function from the paths of its nodes to the node's value,     *)
(* {} for None and {v} for Some(v).                                        *)
(***************************************************************************)
NameTree_new == (<<>> :> {})

\* an insert that leaves the value of a name that already has one
NameTree_insert_keep(tree, name, value) ==
    LET path  == Rev(name)
        nodes == DOMAIN tree \cup { SubSeq(path, 1, k) : k \in 0..Len(path) }
    IN  [p \in nodes |->
            IF p \in DOMAIN tree /\ tree[p] # {} THEN tree[p]
            ELSE IF p = path THEN {value}
            ELSE IF p \in DOMAIN tree THEN tree[p] ELSE {}]

NameTree_insert(tree, name, value) ==
    LET path  == Rev(name)
        nodes == DOMAIN tree \cup { SubSeq(path, 1, k) : k \in 0..Len(path) }
    IN  [p \in nodes |->
            IF p = path THEN {value}
            ELSE IF p \in DOMAIN tree THEN tree[p] ELSE {}]

RECURSIVE NameTree_get_loop(_, _, _, _, _)
NameTree_get_loop(tree, path, i, pos, ret) ==
    IF i > Len(path) THEN ret
    ELSE LET child == Append(pos, path[i])
         IN  IF child \in DOMAIN tree
             THEN NameTree_get_loop(tree, path, i + 1, child,
                                    IF tree[child] # {} THEN tree[child] ELSE ret)
             ELSE ret

\* a get that keeps the value of the first node it meets
RECURSIVE NameTree_get_shortest(_, _, _, _, _)
NameTree_get_shortest(tree, path, i, pos, ret) ==
    IF i > Len(path) \/ ret # {} THEN ret
    ELSE LET child == Append(pos, path[i])
         IN  IF child \in DOMAIN tree
             THEN NameTree_get_shortest(tree, path, i + 1, child, tree[child])
             ELSE ret

NameTree_get_nearest(tree, name) ==
    NameTree_get_shortest(tree, Rev(name), 1, <<>>, tree[<<>>])

NameTree_get(tree, name) ==
    NameTree_get_loop(tree, Rev(name), 1, <<>>, tree[<<>>])

(***************************************************************************)
(* Requests, records and responses.                                        *)
(***************************************************************************)
MessageTypes == { "Query", "Response" }
OpCodes      == { "Query", "Update" }
DNSClasses   == { "IN", "CH" }
RecordTypes  == { "A", "AAAA", "MX" }

NoRequest ==
    [ message_type |-> "None", op_code |-> "None", query_class |-> "None",
      name |-> <<>>, query_type |-> "None" ]

\* Record::from_rdata(name, ttl, rdata)
Record_from_rdata(name, ttl, rdata) == [name |-> name, ttl |-> ttl, rdata |-> rdata]

\* MessageResponseBuilder::build(header, answers, name_servers, soa, additionals)
\* with header = Header::response_from_request(request.header())
MessageResponse_build(code, answers, name_servers, soa, additionals) ==
    [ response_code |-> code, answers |-> answers, name_servers |-> name_servers,
      soa |-> soa, additionals |-> additionals ]

\* MessageResponseBuilder::error_msg(request.header(), code)
MessageResponse_error_msg(code) == MessageResponse_build(code, <<>>, <<>>, <<>>, <<>>)

\* MessageResponseBuilder::build_no_records(Header::response_from_request(..))
MessageResponse_build_no_records == MessageResponse_build("NoError", <<>>, <<>>, <<>>, <<>>)

\* lib.rs failed_response_info(): a fresh header with ServFail
failed_response_info == [response_code |-> "ServFail", local |-> TRUE]

\* the ResponseInfo of a response that went out
ResponseInfo_of(resp) == [response_code |-> resp.response_code, local |-> FALSE]

(***************************************************************************)
(* Upstream handles.  A resolver instance carries the number of the        *)
(* construction that made it (id) and what it was built from.  The RwLock  *)
(* around it is tokio's: fair, first come first served, so a waiting       *)
(* writer holds back the readers that come after it.                       *)
(***************************************************************************)
UpstreamNames == { "u1", "u2" }

MaxUpstreams == 2    \* upstream names in one forward action
MaxTasks == 2        \* concurrent callers of Upstream::lookup on one handle
MaxCalls == 3        \* calls of Upstream::lookup in one run

Tasks == 1..MaxTasks

ResolverConfigs == { "google", "cloudflare" }

ResolverOpts == { [timeout |-> 5], [timeout |-> 1] }

\* AsyncResolver::tokio(config, options), the id-th construction
AsyncResolver_tokio(id, cfg, opts) == [id |-> id, config |-> cfg, options |-> opts]

NoInstance == [id |-> 0, config |-> "none", options |-> [timeout |-> 0]]

\* Upstream::new
Upstream_new(name, cfg, opts, id) ==
    [ name |-> name, config |-> cfg, options |-> opts, timeout |-> opts.timeout,
      resolver |-> AsyncResolver_tokio(id, cfg, opts),
      readers |-> {}, writer |-> {}, queue |-> <<>> ]

\* run(): one Upstream::new per entry of the upstream table
UpstreamTables ==
    { [ u \in UpstreamNames |->
          Upstream_new(u, c, o, IF u = "u1" THEN 1 ELSE 2) ] :
        c \in ResolverConfigs, o \in ResolverOpts }

UpstreamTable == CHOOSE t \in UpstreamTables : t["u1"].config = "google" /\ t["u1"].timeout = 5

\* a rebuild that hands back the instance that is already there
Upstream_rebuild_keeps(h, id) == h.resolver

\* Upstream::lookup, the Err arm: AsyncResolver::tokio(self.config.clone(), self.options.clone())
Upstream_rebuild(h, id) == AsyncResolver_tokio(id, h.config, h.options)

\* Upstream::lookup, the Err arm: Err(ResolveErrorKind::Timeout.into())
Upstream_timeout_error == [kind |-> "Timeout", src |-> "deadline"]

\* what the resolver's own lookup can hand back within the deadline
ResolverResults ==
    { [kind |-> k, src |-> "resolver"] : k \in { "Ok", "NoRecordsFound", "Timeout" } }

NoResult == [kind |-> "None", src |-> "none"]

\* RwLock: the waiters at the head of the queue take the lock as far as it is free
RECURSIVE RwLock_grant(_)
RwLock_grant(h) ==
    IF h.queue = <<>> THEN h
    ELSE LET w == Head(h.queue)
         IN  IF w.mode = "read" /\ h.writer = {}
             THEN RwLock_grant([h EXCEPT !.readers = @ \cup { w.task }, !.queue = Tail(@)])
             ELSE IF w.mode = "write" /\ h.writer = {} /\ h.readers = {}
             THEN [h EXCEPT !.writer = { w.task }, !.queue = Tail(@)]
             ELSE h

\* RwLock::read would not wait: no writer holds the lock or waits for it
RwLock_can_read(h) == h.writer = {} /\ h.queue = <<>>

\* a write lease that is handed out while read leases are held
RwLock_can_write_shared(h) == h.writer = {} /\ h.queue = <<>>

\* RwLock::write would not wait
RwLock_can_write(h) == h.writer = {} /\ h.readers = {} /\ h.queue = <<>>

\* the waiting tasks the lock state h has let in resume
Resumed(tk, h) ==
    [ t \in Tasks |->
        IF tk[t].pc = "wait_read" /\ t \in h.readers
        THEN [tk[t] EXCEPT !.pc = "looking", !.inst = h.resolver]
        ELSE IF tk[t].pc = "wait_write" /\ t \in h.writer
        THEN [tk[t] EXCEPT !.pc = "write_granted"]
        ELSE tk[t] ]

(***************************************************************************)
(* Action configurations and Action::from_config.                          *)
(***************************************************************************)
BlockCfgs == { [kind |-> "block", ttl |-> t] : t \in { 0, 60 } }

FixedCfgs ==
    { [kind |-> "fixed", ttl |-> 30, data |-> d] :
        d \in { <<>>,
                << [type |-> "A", addr |-> "1.2.3.4"] >>,
                << [type |-> "A", addr |-> "5.6.7.8"], [type |-> "A", addr |-> "1.2.3.4"] >> } }

ForwardCfgs ==
    { [kind |-> "forward", upstream |-> us] : us \in SeqsUpTo(UpstreamNames, MaxUpstreams) }

ActionCfgs == BlockCfgs \cup FixedCfgs \cup ForwardCfgs

Ok(v) == [ok |-> TRUE, val |-> v, err |-> ""]

Err(e) == [ok |-> FALSE, val |-> {}, err |-> e]

\* Forward::from_config: the handles of the named upstreams, in order, or
\* UnknownUpstream for the first name the table does not hold
RECURSIVE Forward_from_config_loop(_, _, _, _)
Forward_from_config_loop(ups, i, ret, table) ==
    IF i > Len(ups) THEN Ok([kind |-> "forward", resolvers |-> ret])
    ELSE IF ups[i] \in DOMAIN table
         THEN Forward_from_config_loop(ups, i + 1, Append(ret, ups[i]), table)
         ELSE Err(ups[i])

Forward_from_config(cfg, table) == Forward_from_config_loop(cfg.upstream, 1, <<>>, table)

\* the socket path of the companion process
Paths == { "/run/srv.sock" }

\* ActionCfg::UnixSrvOrBlock and ActionCfg::UnixSrvOrForward
UnixCfgs ==
    { [kind |-> "unix_srv_or_block", path |-> p, active |-> a, inactive |-> b] :
        p \in Paths, a \in FixedCfgs, b \in BlockCfgs }
    \cup
    { [kind |-> "unix_srv_or_forward", path |-> p, active |-> a, forward |-> f] :
        p \in Paths, a \in FixedCfgs, f \in ForwardCfgs }

\* Action::from_config
Action_from_config(cfg, table) ==
    IF cfg.kind = "forward" THEN Forward_from_config(cfg, table)
    ELSE IF cfg.kind = "unix_srv_or_block"
    THEN Ok([kind |-> cfg.kind, path |-> cfg.path, active |-> cfg.active,
             inactive |-> cfg.inactive])
    ELSE IF cfg.kind = "unix_srv_or_forward"
    THEN LET f == Forward_from_config(cfg.forward, table)
         IN  IF ~f.ok THEN f
             ELSE Ok([kind |-> cfg.kind, path |-> cfg.path, active |-> cfg.active,
                      inactive |-> f.val])
    ELSE Ok(cfg)

(***************************************************************************)
(* DomainAction<A>::from_config.  The Arc made for entry i of              *)
(* Config.actions is the handle i; handle 0 stands for the default action. *)
(***************************************************************************)
RECURSIVE from_config_domains(_, _, _, _)
from_config_domains(tree, ds, j, act) ==
    IF j > Len(ds) THEN tree
    ELSE from_config_domains(NameTree_insert(tree, ds[j], act), ds, j + 1, act)

RECURSIVE from_config_actions(_, _, _, _, _)
from_config_actions(tree, arcs, actions, i, table) ==
    IF i > Len(actions) THEN Ok([domains |-> tree, arcs |-> arcs])
    ELSE LET act == Action_from_config(actions[i].action, table)
         IN  IF ~act.ok THEN act
             ELSE from_config_actions(
                      from_config_domains(tree, actions[i].domains, 1, i),
                      Append(arcs, act.val), actions, i + 1, table)

DomainAction_from_config(cfg, table) ==
    LET tree == from_config_actions(NameTree_new, <<>>, cfg.actions, 1, table)
        def  == Action_from_config(cfg.default_action, table)
    IN  IF ~tree.ok THEN tree
        ELSE IF ~def.ok THEN def
        ELSE Ok([default |-> def.val, arcs |-> tree.val.arcs,
                 domains |-> tree.val.domains])

\* DomainAction::handle_request: the handle of the action the request goes to
DomainAction_dispatch(r, req) ==
    LET name == LowerName(req.name)
        got  == NameTree_get(r.domains, name)
    IN  IF got # {} THEN CHOOSE a \in got : TRUE ELSE 0

\* the action behind a handle
ActionOf(r, h) == IF h = 0 THEN r.default ELSE r.arcs[h]

(***************************************************************************)
(* The responses of the actions.                                           *)
(***************************************************************************)
\* a Block that answers every query type but A with the AAAA record
Block_response_no_default(act, req) ==
    LET name == LowerName(req.name)
    IN  IF req.query_type = "A"
        THEN MessageResponse_build("NoError",
                 << Record_from_rdata(name, act.ttl, [type |-> "A", addr |-> "0.0.0.0"]) >>,
                 <<>>, <<>>, <<>>)
        ELSE MessageResponse_build("NoError",
                 << Record_from_rdata(name, act.ttl, [type |-> "AAAA", addr |-> "::"]) >>,
                 <<>>, <<>>, <<>>)

\* Block::handle_request
Block_response(act, req) ==
    LET name == LowerName(req.name)
    IN  IF req.query_type = "A"
        THEN MessageResponse_build("NoError",
                 << Record_from_rdata(name, act.ttl, [type |-> "A", addr |-> "0.0.0.0"]) >>,
                 <<>>, <<>>, <<>>)
        ELSE IF req.query_type = "AAAA"
        THEN MessageResponse_build("NoError",
                 << Record_from_rdata(name, act.ttl, [type |-> "AAAA", addr |-> "::"]) >>,
                 <<>>, <<>>, <<>>)
        ELSE MessageResponse_build("NoError", <<>>, <<>>, <<>>, <<>>)

\* a Fixed that collects its records in reverse
Fixed_response_reversed(act, req) ==
    LET name == LowerName(req.name)
    IN  MessageResponse_build("NoError",
            [k \in 1..Len(act.data) |->
                Record_from_rdata(name, act.ttl, act.data[Len(act.data) + 1 - k])],
            <<>>, <<>>, <<>>)

\* Fixed::handle_request
Fixed_response(act, req) ==
    LET name == LowerName(req.name)
    IN  MessageResponse_build("NoError",
            [k \in 1..Len(act.data) |-> Record_from_rdata(name, act.ttl, act.data[k])],
            <<>>, <<>>, <<>>)

\* a Forward that puts its TXT record after the answers as well
Forward_response_txt_in_answer(req, up, records) ==
    LET txt == Record_from_rdata(LowerName(req.name), 0,
                   [type |-> "TXT", txt |-> "upstream " \o up.name])
    IN  MessageResponse_build("NoError", Append(records, txt), <<>>, <<>>, << txt >>)

\* Forward::handle_request, the Ok arm: the records of the lookup, and one
\* TXT record naming the upstream
Forward_response(req, up, records) ==
    MessageResponse_build("NoError", records, <<>>, <<>>,
        << Record_from_rdata(LowerName(req.name), 0,
               [type |-> "TXT", txt |-> "upstream " \o up.name]) >>)

\* Forward::handle_request after the loop: code.unwrap_or(ServFail)
Forward_failure(code) ==
    MessageResponse_error_msg(IF code = {} THEN "ServFail" ELSE CHOOSE c \in code : TRUE)

\* a Forward that forgets the remembered code at a failure of another kind
Forward_remember_last_error(code, result) ==
    IF result.kind = "NoRecordsFound" THEN { result.response_code } ELSE {}

\* Forward::handle_request, the Err arm: remember a NoRecordsFound code
Forward_remember(code, result) ==
    IF result.kind = "NoRecordsFound" THEN { result.response_code } ELSE code

(***************************************************************************)
(* What a resolver can answer to a lookup (the environment).               *)
(***************************************************************************)
UpstreamRecord(u, req, k) ==
    Record_from_rdata(LowerName(req.name), 300, [type |-> req.query_type, from |-> u, n |-> k])

LookupResults(u, req) ==
    { [kind |-> "Ok", records |-> rs, response_code |-> "NoError"] :
        rs \in { << UpstreamRecord(u, req, 1) >>,
                 << UpstreamRecord(u, req, 1), UpstreamRecord(u, req, 2) >> } }
    \cup { [kind |-> "NoRecordsFound", records |-> <<>>, response_code |-> c] :
             c \in { "NXDomain", "NoError" } }
    \cup { [kind |-> k, records |-> <<>>, response_code |-> "None"] : k \in { "Timeout", "Io" } }

(***************************************************************************)
(* The request handlers.                                                   *)
(***************************************************************************)
NoFwd ==
    [i |-> 0, code |-> {}, elapsed |-> FALSE, late |-> {}, used |-> <<>>, results |-> <<>>]

\* a handler that completes without handing a response to send_response
Respond_silent(resp) ==
    /\ sent' = sent
    /\ info' = { failed_response_info }
    /\ pc' = "done"

\* a handler that sends the response again when the send failed
Respond_retry(resp) ==
    /\ \E ok \in BOOLEAN :
          sent' = IF ok THEN Append(sent, resp) ELSE sent \o << resp, resp >>
    /\ info' = { ResponseInfo_of(resp) }
    /\ pc' = "done"

\* response_handle.send_response(resp).await.unwrap_or_else(send_response_failed)
Respond(resp) ==
    /\ sent' = Append(sent, resp)
    /\ \E ok \in BOOLEAN :
          info' = { IF ok THEN ResponseInfo_of(resp) ELSE failed_response_info }
    /\ pc' = "done"

\* Forward::handle_request at the head of its loop, f.i being the resolver to
\* try next: the lookup goes to the resolver field of the handle,
\* r.resolver.lookup(..), or the loop is over and the failure is sent
Forward_loop(act, f) ==
    IF f.i > Len(act.resolvers)
    THEN /\ Respond(Forward_failure(f.code))
         /\ fwd' = f
         /\ UNCHANGED queried
    ELSE /\ pc' = "lookup"
         /\ queried' = Append(queried, act.resolvers[f.i])
         /\ fwd' = [f EXCEPT !.used = Append(@, upstream[act.resolvers[f.i]].resolver)]
         /\ UNCHANGED <<sent, info>>

\* Block, Fixed and Forward as request handlers
Plain_handle_request(act) ==
    IF act.kind = "block"
    THEN Respond(Block_response(act, request)) /\ UNCHANGED <<fwd, queried>>
    ELSE IF act.kind = "fixed"
    THEN Respond(Fixed_response(act, request)) /\ UNCHANGED <<fwd, queried>>
    ELSE Forward_loop(act, [NoFwd EXCEPT !.i = 1])

\* a UnixService that serves the inactive side while the path exists
UnixService_branch_negated(act, files) ==
    IF act.path \in files THEN "inactive" ELSE "active"

\* UnixService::handle_request: self.path.exists()
UnixService_branch(act, files) ==
    IF act.path \in files THEN "active" ELSE "inactive"

\* the checks remembered: the last one and the one before it
Probed(p) == IF Len(probes) = 0 THEN << p >> ELSE << probes[Len(probes)], p >>

\* UnixService::handle_request
UnixService_handle_request(act) ==
    LET b == UnixService_branch(act, fs)
    IN  /\ probes' = Probed([exists |-> act.path \in fs, branch |-> b])
        /\ Plain_handle_request(IF b = "active" THEN act.active ELSE act.inactive)

\* Action::handle_request
Action_handle_request(act) ==
    IF act.kind \in { "unix_srv_or_block", "unix_srv_or_forward" }
    THEN UnixService_handle_request(act)
    ELSE Plain_handle_request(act) /\ UNCHANGED probes

\* the Forward whose loop runs for the selected action
ForwardOf(act) == IF act.kind = "forward" THEN act ELSE act.inactive

\* DomainAction::handle_request
DomainAction_handle_request ==
    LET h == DomainAction_dispatch(router, request)
    IN  /\ selected' = {h}
        /\ Action_handle_request(ActionOf(router, h))

\* names the clients of the full server ask for: ".", "a.", "A.a.", "xa."
DnsQueryNames == { <<>>, << <<97>> >>, << <<65>>, <<97>> >>, << <<120, 97>> >> }

\* a request arrives from a listener
DnsReceive ==
    /\ pc = "idle"
    /\ \E mt \in MessageTypes, op \in OpCodes, cl \in DNSClasses,
          n \in DnsQueryNames, qt \in RecordTypes :
          request' = [ message_type |-> mt, op_code |-> op, query_class |-> cl,
                       name |-> n, query_type |-> qt ]
    /\ pc' = "gate"
    /\ UNCHANGED <<config, router, selected, upstream, fwd, queried, sent, info>>
    /\ UNCHANGED <<upVars, fsVars, pxVars, osVars>>

\* a gate that looks at the class before the message type and the op code
InQueryHandler_gate_class_first(req) ==
    IF req.query_class # "IN" THEN "NoRecords"
    ELSE IF req.message_type # "Query" THEN "FormErr"
    ELSE IF req.op_code # "Query" THEN "NotImp"
    ELSE "Pass"

\* a gate that lets every class through
InQueryHandler_gate_any_class(req) ==
    IF req.message_type # "Query" THEN "FormErr"
    ELSE IF req.op_code # "Query" THEN "NotImp"
    ELSE "Pass"

\* InQueryHandler::handle_request: the three checks, in the order of the code
InQueryHandler_gate(req) ==
    IF req.message_type # "Query" THEN "FormErr"
    ELSE IF req.op_code # "Query" THEN "NotImp"
    ELSE IF req.query_class # "IN" THEN "NoRecords"
    ELSE "Pass"

\* InQueryHandler::handle_request
InQueryHandler_handle_request ==
    /\ pc = "gate"
    /\ LET verdict == InQueryHandler_gate(request)
       IN  IF verdict = "Pass"
           THEN DomainAction_handle_request
           ELSE /\ Respond(IF verdict = "NoRecords"
                           THEN MessageResponse_build_no_records
                           ELSE MessageResponse_error_msg(verdict))
                /\ UNCHANGED <<selected, fwd, queried, probes>>
    /\ UNCHANGED <<config, router, request, upstream>>
    /\ UNCHANGED <<upVars, fs, pxVars, osVars>>

\* the deadline of the upstream being asked passes while its lookup is pending;
\* nothing in Forward::handle_request watches it
ForwardDeadlinePasses ==
    /\ pc = "lookup"
    /\ ~fwd.elapsed
    /\ fwd' = [fwd EXCEPT !.elapsed = TRUE, !.late = @ \cup { fwd.i }]
    /\ UNCHANGED <<config, router, request, pc, selected, upstream, queried, sent, info>>
    /\ UNCHANGED <<upVars, fsVars, pxVars, osVars>>

\* a loop that gives up at the first NoRecordsFound
Forward_advance_stops(act, f, result) ==
    [f EXCEPT !.i = IF result.kind = "NoRecordsFound" THEN Len(act.resolvers) + 1 ELSE @ + 1,
              !.code = Forward_remember(@, result)]

\* Forward::handle_request, the Err arm: the code of a NoRecordsFound is
\* remembered and the for loop goes on to the next resolver
Forward_advance(act, f, result) ==
    [f EXCEPT !.i = @ + 1, !.code = Forward_remember(@, result)]

\* the pending lookup of Forward::handle_request returns
ForwardLookupReturns ==
    /\ pc = "lookup"
    /\ LET act == ForwardOf(ActionOf(router, CHOOSE h \in selected : TRUE))
           u   == act.resolvers[fwd.i]
       IN  \E result \in LookupResults(u, request) :
              LET f == [fwd EXCEPT !.results = Append(@, result), !.elapsed = FALSE]
              IN  IF result.kind = "Ok"
                  THEN /\ Respond(Forward_response(request, upstream[u], result.records))
                       /\ fwd' = f
                       /\ UNCHANGED queried
                  ELSE Forward_loop(act, Forward_advance(act, f, result))
    /\ UNCHANGED <<config, router, request, selected, upstream>>
    /\ UNCHANGED <<upVars, fsVars, pxVars, osVars>>

\* the handler's future has completed; the server takes the next request
DnsDone ==
    /\ pc = "done"
    /\ pc' = "idle"
    /\ request' = NoRequest
    /\ selected' = {}
    /\ fwd' = NoFwd
    /\ queried' = <<>>
    /\ sent' = <<>>
    /\ info' = {}
    /\ UNCHANGED <<config, router, upstream>>
    /\ UNCHANGED <<upVars, fsVars, pxVars, osVars>>

(***************************************************************************)
(* The cache proxy: HTTP messages.  A header map is a function from the    *)
(* header names it holds to the sequence of values of each; a URI is its   *)
(* parts, each absent ({}) or present ({v}).                               *)
(***************************************************************************)
MaxClients == 1      \* requests the proxy serves at the same time
MaxTime == 2         \* ticks of the clock
MaxAge == 1          \* max-age the upstream server grants, in ticks
MaxVersion == 2      \* versions of the content the upstream server publishes
MaxConc == 2         \* connections served at the same time, all asking for one key

Clients == 1..MaxClients

\* CacheProxy.authority, the pinned authority
Authority == "origin.example"

HeaderMap_get(h, k) == IF k \in DOMAIN h THEN { h[k][1] } ELSE {}

HeaderMap_contains_key(h, k) == k \in DOMAIN h

\* HeaderMap::get_all: every value the map holds for the name
HeaderMap_get_all(h, k) == IF k \in DOMAIN h THEN { h[k][i] : i \in 1..Len(h[k]) } ELSE {}

\* a HeaderMap::insert that adds the value to the ones the map holds
HeaderMap_insert_append(h, k, v) ==
    [ x \in DOMAIN h \cup { k } |->
        IF x # k THEN h[x] ELSE IF k \in DOMAIN h THEN Append(h[k], v) ELSE << v >> ]

\* HeaderMap::insert: the value replaces every value of the name
HeaderMap_insert(h, k, v) == [ x \in DOMAIN h \cup { k } |-> IF x = k THEN << v >> ELSE h[x] ]

HeaderMap_remove(h, k) == [ x \in DOMAIN h \ { k } |-> h[x] ]

NoHeaders == [ x \in {} |-> <<>> ]

\* http::Uri in origin form
Uri_origin(path) == [scheme |-> {}, authority |-> {}, path_and_query |-> { path }]

\* Uri::from_parts: a scheme needs an authority and a path
Uri_from_parts(u) ==
    IF u.scheme # {} /\ (u.authority = {} \/ u.path_and_query = {})
    THEN Err("missing path or authority") ELSE Ok(u)

\* the request of a client that the others are variations of
BaseRequest ==
    [ method  |-> "GET",
      uri     |-> Uri_origin("/a"),
      headers |-> HeaderMap_insert(HeaderMap_insert(NoHeaders, "host", Authority),
                                   "user-agent", "firefox") ]

\* one step of variation: another method or header
Varied(r) ==
    { [r EXCEPT !.method = "POST"] }
    \cup { [r EXCEPT !.headers = HeaderMap_insert(@, h[1], h[2])] :
             h \in { <<"host", "other.example">>, <<"host", "not a host">>,
                     <<"authorization", "Basic dXNlcg==">>,
                     <<"accept-encoding", "gzip">>,
                     <<"accept-language", "en">>,
                     <<"cache-control", "no-cache">> } }
    \cup { [r EXCEPT !.headers = HeaderMap_remove(@, "host")] }

\* the requests clients send: the base request and its variations in up to
\* two places
ClientRequests ==
    LET one == { BaseRequest } \cup Varied(BaseRequest)
    IN  one \cup UNION { Varied(r) : r \in one }

\* ProxyError<E>
ProxyError(kind, detail) == [kind |-> kind, detail |-> detail]

\* a filter that looks at the method alone
should_cache_req_any_get(req) == req.method = "GET"

\* should_cache_req
should_cache_req(req) ==
    IF req.method # "GET" THEN FALSE
    ELSE IF HeaderMap_contains_key(req.headers, "authorization") THEN FALSE
    ELSE TRUE

\* Authority::try_from(host.as_bytes()): no whitespace in an authority
Authority_try_from(v) == IF v = "not a host" THEN Err(v) ELSE Ok(v)

\* add_uri_authority
add_uri_authority(upstream_host, pts) ==
    LET host == HeaderMap_get(pts.headers, "host")
    IN  IF host = {} THEN Err(ProxyError("MissingHost", ""))
        ELSE LET a == Authority_try_from(CHOOSE h \in host : TRUE)
             IN  IF ~a.ok THEN Err(ProxyError("InvalidHost", a.err))
                 ELSE IF a.val # upstream_host THEN Err(ProxyError("UnexpectedHost", a.val))
                 ELSE LET u == Uri_from_parts([pts.uri EXCEPT !.scheme = { "https" },
                                                              !.authority = { a.val }])
                      IN  IF ~u.ok THEN Err(ProxyError("InvalidUri", u.err))
                          ELSE Ok([pts EXCEPT !.uri = u.val])

\* cache_key
cache_key(req) ==
    IF req.uri.path_and_query = {} THEN ""
    ELSE CHOOSE p \in req.uri.path_and_query : TRUE

\* a normalization that keeps the Accept-Encoding of the request
normalized_as_is(pts) == pts

\* CacheProxy::call: the normalized copy of the request
normalized(pts) == [pts EXCEPT !.headers = HeaderMap_remove(@, "accept-encoding")]

(***************************************************************************)
(* The upstream server.  A body is the version of the content it carries   *)
(* and the coding it travels in; every answer carries the version as ETag. *)
(***************************************************************************)
Body(v, enc) == [data |-> v, encoding |-> enc]

NoBody == Body(0, "identity")

\* the header sets the upstream server answers with, ETag aside
OriginHeaders ==
    { HeaderMap_insert(NoHeaders, "cache-control", "max-age"),
      HeaderMap_insert(NoHeaders, "cache-control", "no-store"),
      "vary" :> << "accept-language", "accept-encoding" >>
         @@ HeaderMap_insert(NoHeaders, "cache-control", "max-age"),
      HeaderMap_insert(HeaderMap_insert(NoHeaders, "cache-control", "max-age"),
                       "content-encoding", "gzip") }

ETag(v) == IF v = 1 THEN "v1" ELSE IF v = 2 THEN "v2" ELSE "v3"

\* the answers of the upstream server to a request while it holds version
\* v: 304 to a conditional request that names that version, the content
\* otherwise
OriginAnswersAt(req, v) ==
    IF HeaderMap_get(req.headers, "if-none-match") = { ETag(v) }
    THEN { [ status  |-> 304,
             headers |-> HeaderMap_insert(h, "etag", ETag(v)),
             body    |-> NoBody ] :
             h \in { x \in OriginHeaders : ~HeaderMap_contains_key(x, "content-encoding") } }
    ELSE { [ status  |-> 200,
             headers |-> HeaderMap_insert(h, "etag", ETag(v)),
             body    |-> Body(v, IF HeaderMap_contains_key(h, "content-encoding")
                                 THEN "gzip" ELSE "identity") ] :
             h \in OriginHeaders }

\* the answers of the upstream server to a request that reaches it now
OriginAnswers(req) == OriginAnswersAt(req, origin)

(***************************************************************************)
(* The cache policy engine (http_cache_semantics::CachePolicy), as far as  *)
(* the proxy relies on it.                                                 *)
(***************************************************************************)
\* CachePolicy::new(req, res), at time t
CachePolicy_new(req, res, t) ==
    [ uri |-> req.uri, req_headers |-> req.headers, status |-> res.status,
      res_headers |-> res.headers, response_time |-> t ]

CachePolicy_directives(p) ==
    IF "cache-control" \in DOMAIN p.res_headers
    THEN { p.res_headers["cache-control"][i] : i \in 1..Len(p.res_headers["cache-control"]) }
    ELSE {}

\* CachePolicy::is_storable
CachePolicy_is_storable(p) == p.status = 200 /\ "no-store" \notin CachePolicy_directives(p)

CachePolicy_max_age(p) ==
    IF CachePolicy_is_storable(p) /\ "max-age" \in CachePolicy_directives(p)
    THEN MaxAge ELSE 0

CachePolicy_is_stale(p, t) == CachePolicy_max_age(p) <= t - p.response_time

\* the stored response answers the request: same URI, same Host, and the
\* same value for every header Vary names
CachePolicy_request_matches(p, req) ==
    /\ p.uri = req.uri
    /\ HeaderMap_get(p.req_headers, "host") = HeaderMap_get(req.headers, "host")
    /\ \A name \in HeaderMap_get_all(p.res_headers, "vary") :
          HeaderMap_get(p.req_headers, name) = HeaderMap_get(req.headers, name)

CachePolicy_satisfies_without_revalidation(p, req, t) ==
    /\ HeaderMap_get(req.headers, "cache-control") # { "no-cache" }
    /\ ~CachePolicy_is_stale(p, t)
    /\ CachePolicy_request_matches(p, req)

\* the request to revalidate with: conditional when the entry answers req
CachePolicy_revalidation_request(p, req) ==
    IF CachePolicy_request_matches(p, req) /\ HeaderMap_contains_key(p.res_headers, "etag")
    THEN [req EXCEPT !.headers = HeaderMap_insert(@, "if-none-match", p.res_headers["etag"][1])]
    ELSE [req EXCEPT !.headers = HeaderMap_remove(@, "if-none-match")]

NoParts == [status |-> 0, headers |-> NoHeaders]

\* CachePolicy::before_request(req, now): BeforeRequest::Fresh(parts) or
\* BeforeRequest::Stale { request, matches }
CachePolicy_before_request(p, req, t) ==
    IF CachePolicy_satisfies_without_revalidation(p, req, t)
    THEN [ verdict |-> "Fresh", matches |-> TRUE,
           parts |-> [status |-> p.status, headers |-> p.res_headers],
           request |-> req ]
    ELSE [ verdict |-> "Stale", matches |-> CachePolicy_request_matches(p, req),
           parts |-> NoParts,
           request |-> CachePolicy_revalidation_request(p, req) ]

\* CachePolicy::after_response(request, response, now): NotModified for a
\* 304 that names the stored version, Modified otherwise
CachePolicy_after_response(p, req, res, t) ==
    IF /\ res.status = 304
       /\ HeaderMap_get(res.headers, "etag") # {}
       /\ HeaderMap_get(res.headers, "etag") = HeaderMap_get(p.res_headers, "etag")
    THEN [ verdict |-> "NotModified",
           policy  |-> [ uri |-> req.uri, req_headers |-> req.headers, status |-> p.status,
                         res_headers |-> [ x \in DOMAIN p.res_headers \cup DOMAIN res.headers |->
                                             IF x \in DOMAIN res.headers THEN res.headers[x]
                                             ELSE p.res_headers[x] ],
                         response_time |-> t ] ]
    ELSE [ verdict |-> "Modified", policy |-> CachePolicy_new(req, res, t) ]

(***************************************************************************)
(* The cache store (cacache) and the encoding of an entry (ciborium).      *)
(***************************************************************************)
CacheEntry(policy, body) == [policy |-> policy, body |-> body]

NoEntry == CacheEntry(CachePolicy_new(BaseRequest, NoParts, 0), NoBody)

\* ciborium::into_writer(entry, &mut buf)
ciborium_into_writer(entry) == [kind |-> "cbor", entry |-> entry]

\* bytes that are no entry
Garbage == [kind |-> "garbage", entry |-> NoEntry]

\* ciborium::from_reader(v.as_slice())
ciborium_from_reader(bytes) ==
    IF bytes.kind = "cbor" THEN Ok(bytes.entry) ELSE Err(ProxyError("Decode", bytes.kind))

\* a read that reports every failure as a missing entry
cacache_read_sync_lenient(store, key, io_ok) ==
    IF io_ok /\ key \in DOMAIN store /\ store[key].kind = "cbor" THEN Ok(store[key])
    ELSE Err(ProxyError("EntryNotFound", key))

\* cacache::read_sync(&self.root, key), the store answering or failing
cacache_read_sync(store, key, io_ok) ==
    IF ~io_ok THEN Err(ProxyError("ReadCache", "io"))
    ELSE IF key \in DOMAIN store THEN Ok(store[key])
    ELSE Err(ProxyError("EntryNotFound", key))

\* a write that leaves the entry under the key when it holds a newer body
cacache_write_sync_keep_newer(store, key, buf) ==
    IF /\ key \in DOMAIN store
       /\ store[key].kind = "cbor"
       /\ buf.kind = "cbor"
       /\ store[key].entry.body.data > buf.entry.body.data
    THEN store
    ELSE [ k \in DOMAIN store \cup { key } |-> IF k = key THEN buf ELSE store[k] ]

\* cacache::write_sync(&self.root, key, buf)
cacache_write_sync(store, key, buf) ==
    [ k \in DOMAIN store \cup { key } |-> IF k = key THEN buf ELSE store[k] ]

(***************************************************************************)
(* The proxy service.  The state of one client request is the ProxyFuture  *)
(* the call returned, with what it has done so far: the requests it sent   *)
(* upstream (up), the entries it wrote (writes), the verdicts of the       *)
(* policy (verdicts) and the order of all of these (events).               *)
(***************************************************************************)
Response(status, headers, body, text) ==
    [status |-> status, headers |-> headers, body |-> body, text |-> text]

NoResponse == Response(0, NoHeaders, NoBody, "")

NoError == ProxyError("", "")

\* impl Display for ProxyError
ProxyError_fmt(e) ==
    IF e.kind = "MissingHost" THEN "missing host header"
    ELSE IF e.kind = "InvalidHost" THEN "invalid host " \o e.detail
    ELSE IF e.kind = "UnexpectedHost" THEN "unexpected host " \o e.detail
    ELSE IF e.kind = "InvalidUri" THEN "invalid uri: " \o e.detail
    ELSE IF e.kind = "InvalidPath" THEN "invalid path " \o e.detail
    ELSE IF e.kind \in { "Upstream", "BoxedUpstream" }
    THEN "failed to send request to upstream: " \o e.detail
    ELSE IF e.kind = "ReadCache" THEN "failed to read cache: " \o e.detail
    ELSE IF e.kind = "WriteCache" THEN "failed to write cache: " \o e.detail
    ELSE "failed to decode cache entry: " \o e.detail

\* a map that answers every error with 500
StatusOf_always_500(e) == 500

\* main.rs map_result: the status of an error
StatusOf(e) ==
    IF e.kind \in { "MissingHost", "InvalidHost", "UnexpectedHost", "InvalidUri", "InvalidPath" }
    THEN 400
    ELSE IF e.kind \in { "Upstream", "BoxedUpstream" } THEN 502
    ELSE 500

\* main.rs map_result
map_result(ok, resp, err) ==
    IF ok THEN resp
    ELSE Response(StatusOf(err), HeaderMap_insert(NoHeaders, "content-type", "text/plain"),
                  NoBody, ProxyError_fmt(err))

NoClient ==
    [ pc       |-> "idle",
      req      |-> BaseRequest,      \* the request as it came (orig_req)
      norm     |-> BaseRequest,      \* the normalized request (req)
      mode     |-> "",               \* what the boxed future does: "fetch", "revalidate"
      entry    |-> NoEntry,          \* the entry the future holds
      asked    |-> BaseRequest,      \* the request the policy was built or asked with
      since    |-> 0,                \* the version upstream held when the request went out
      up       |-> <<>>,
      writes   |-> <<>>,
      verdicts |-> <<>>,
      events   |-> <<>>,
      ok       |-> FALSE,
      result   |-> NoResponse,       \* Ok(response) of the ProxyFuture
      err      |-> NoError,          \* Err(error) of the ProxyFuture
      response |-> NoResponse ]      \* what map_result hands to the connection

\* the ProxyFuture is ready with Ok(resp)
ReadyOk(cl, resp) ==
    [cl EXCEPT !.pc = "done", !.ok = TRUE, !.result = resp,
               !.response = map_result(TRUE, resp, NoError),
               !.events = Append(@, "ready")]

\* the ProxyFuture is ready with Err(e)
ReadyErr(cl, e) ==
    [cl EXCEPT !.pc = "done", !.ok = FALSE, !.err = e,
               !.response = map_result(FALSE, NoResponse, e),
               !.events = Append(@, "ready")]

\* a request handed to the HTTPS client, through the service named by via
Sent(via, kind, req) == [via |-> via, kind |-> kind, request |-> req]

\* CacheProxy::forward
CacheProxy_forward(cl, req) ==
    LET pts == add_uri_authority(Authority, req)
        c1  == [cl EXCEPT !.events = Append(@, "forward")]
    IN  IF ~pts.ok THEN ReadyErr(c1, pts.err)
        ELSE [c1 EXCEPT !.pc = "await_forward",
                        !.up = Append(@, Sent("forwarded", "forward", pts.val))]

\* a ProxyFuture::cached that adds no-store to the stored Cache-Control
ProxyFuture_cached_append(pts, body) ==
    Response(pts.status, HeaderMap_insert_append(pts.headers, "cache-control", "no-store"),
             body, "")

\* ProxyFuture::cached
ProxyFuture_cached(pts, body) ==
    Response(pts.status, HeaderMap_insert(pts.headers, "cache-control", "no-store"), body, "")

Verdict(at, v) == [at |-> at, verdict |-> v.verdict, matches |-> v.matches]

\* a cached_or_forward that revalidates a stale entry once more
CacheProxy_cached_or_forward_again(cl, entry, orig_req, req, t) ==
    LET v  == CachePolicy_before_request(entry.policy, req, t)
        c1 == [cl EXCEPT !.verdicts = Append(@, Verdict("rerun", v)),
                         !.events = Append(@, "rerun")]
    IN  IF v.verdict = "Fresh"
        THEN ReadyOk(c1, ProxyFuture_cached(v.parts, entry.body))
        ELSE [c1 EXCEPT !.pc = "boxed", !.mode = "revalidate"]

\* CacheProxy::cached_or_forward
CacheProxy_cached_or_forward(cl, entry, orig_req, req, t) ==
    LET v  == CachePolicy_before_request(entry.policy, req, t)
        c1 == [cl EXCEPT !.verdicts = Append(@, Verdict("rerun", v)),
                         !.events = Append(@, "rerun")]
    IN  IF v.verdict = "Fresh"
        THEN ReadyOk(c1, ProxyFuture_cached(v.parts, entry.body))
        ELSE CacheProxy_forward(c1, orig_req)

\* tower_http Decompression on the way out: it asks for a coding it can undo
Decompression_request(req) ==
    IF HeaderMap_contains_key(req.headers, "accept-encoding") THEN req
    ELSE [req EXCEPT !.headers = HeaderMap_insert(@, "accept-encoding", "gzip")]

\* a Decompression that hands the answer on as it came
Decompression_response_as_is(res) == res

\* tower_http Decompression on the way back: the body decoded, the coding
\* taken from the headers
Decompression_response(res) ==
    IF HeaderMap_get(res.headers, "content-encoding") = { "gzip" }
    THEN [res EXCEPT !.headers = HeaderMap_remove(@, "content-encoding"),
                     !.body = Body(@.data, "identity")]
    ELSE res

\* a req_upstream that keeps the URI and the headers of its argument
CacheProxy_req_upstream_as_is(req) == Ok(req)

\* CacheProxy::req_upstream, up to self.upstream.call(..)
CacheProxy_req_upstream(req) ==
    LET uri == Uri_from_parts([req.uri EXCEPT !.scheme = { "https" },
                                              !.authority = { Authority }])
    IN  IF ~uri.ok THEN Err(ProxyError("InvalidUri", uri.err))
        ELSE Ok([req EXCEPT !.uri = uri.val,
                            !.headers = HeaderMap_insert(@, "user-agent", "curl")])

\* Request::get(uri).header(header::HOST, self.authority.as_str()).body(())
Request_get(uri) ==
    [method |-> "GET", uri |-> uri, headers |-> HeaderMap_insert(NoHeaders, "host", Authority)]

\* a call that revalidates every stale entry, matching the request or not
CacheProxy_call_cacheable_revalidating(cl, store, io_ok, t) ==
    LET req   == cl.norm
        read  == cacache_read_sync(store, cache_key(req), io_ok)
        c1    == [cl EXCEPT !.events = Append(@, "read")]
    IN  IF read.ok
        THEN LET dec == ciborium_from_reader(read.val)
             IN  IF ~dec.ok THEN ReadyErr(c1, dec.err)
                 ELSE IF ~CachePolicy_is_storable(dec.val.policy)
                 THEN CacheProxy_forward([c1 EXCEPT !.entry = dec.val], cl.req)
                 ELSE LET v  == CachePolicy_before_request(dec.val.policy, req, t)
                          c2 == [c1 EXCEPT !.entry = dec.val,
                                           !.verdicts = Append(@, Verdict("call", v)),
                                           !.events = Append(@, "verdict")]
                      IN  IF v.verdict = "Fresh"
                          THEN ReadyOk(c2, ProxyFuture_cached(v.parts, dec.val.body))
                          ELSE [c2 EXCEPT !.pc = "boxed", !.mode = "revalidate"]
        ELSE IF read.err.kind = "EntryNotFound"
        THEN [c1 EXCEPT !.pc = "boxed", !.mode = "fetch"]
        ELSE ReadyErr(c1, read.err)

\* a call that fetches again when the entry it reads is not storable
CacheProxy_call_cacheable_refetching(cl, store, io_ok, t) ==
    LET req   == cl.norm
        read  == cacache_read_sync(store, cache_key(req), io_ok)
        c1    == [cl EXCEPT !.events = Append(@, "read")]
    IN  IF read.ok
        THEN LET dec == ciborium_from_reader(read.val)
             IN  IF ~dec.ok THEN ReadyErr(c1, dec.err)
                 ELSE IF ~CachePolicy_is_storable(dec.val.policy)
                 THEN [c1 EXCEPT !.pc = "boxed", !.mode = "fetch"]
                 ELSE LET v  == CachePolicy_before_request(dec.val.policy, req, t)
                          c2 == [c1 EXCEPT !.entry = dec.val,
                                           !.verdicts = Append(@, Verdict("call", v)),
                                           !.events = Append(@, "verdict")]
                      IN  IF v.verdict = "Fresh"
                          THEN ReadyOk(c2, ProxyFuture_cached(v.parts, dec.val.body))
                          ELSE IF ~v.matches THEN CacheProxy_forward(c2, cl.req)
                          ELSE [c2 EXCEPT !.pc = "boxed", !.mode = "revalidate"]
        ELSE IF read.err.kind = "EntryNotFound"
        THEN [c1 EXCEPT !.pc = "boxed", !.mode = "fetch"]
        ELSE ReadyErr(c1, read.err)

\* CacheProxy::call on a cacheable request: the read of the store and what
\* follows from it
CacheProxy_call_cacheable(cl, store, io_ok, t) ==
    LET req   == cl.norm
        read  == cacache_read_sync(store, cache_key(req), io_ok)
        c1    == [cl EXCEPT !.events = Append(@, "read")]
    IN  IF read.ok
        THEN LET dec == ciborium_from_reader(read.val)
             IN  IF ~dec.ok THEN ReadyErr(c1, dec.err)
                 ELSE IF ~CachePolicy_is_storable(dec.val.policy)
                 THEN CacheProxy_forward([c1 EXCEPT !.entry = dec.val], cl.req)
                 ELSE LET v  == CachePolicy_before_request(dec.val.policy, req, t)
                          c2 == [c1 EXCEPT !.entry = dec.val,
                                           !.verdicts = Append(@, Verdict("call", v)),
                                           !.events = Append(@, "verdict")]
                      IN  IF v.verdict = "Fresh"
                          THEN ReadyOk(c2, ProxyFuture_cached(v.parts, dec.val.body))
                          ELSE IF ~v.matches THEN CacheProxy_forward(c2, cl.req)
                          ELSE [c2 EXCEPT !.pc = "boxed", !.mode = "revalidate"]
        ELSE IF read.err.kind = "EntryNotFound"
        THEN [c1 EXCEPT !.pc = "boxed", !.mode = "fetch"]
        ELSE ReadyErr(c1, read.err)

\* CacheProxy::call
CacheProxy_call(cl, req, store, io_ok, t) ==
    IF ~should_cache_req(req)
    THEN CacheProxy_forward([cl EXCEPT !.req = req, !.norm = req], req)
    ELSE CacheProxy_call_cacheable([cl EXCEPT !.req = req, !.norm = normalized(req)],
                                   store, io_ok, t)

\* a client request reaches the service
PxCallOf(c, reqs) ==
    /\ client[c].pc = "idle"
    /\ \E req \in reqs, io_ok \in BOOLEAN :
          client' = [client EXCEPT ![c] = CacheProxy_call(NoClient, req, cache, io_ok, now)]
    /\ UNCHANGED <<cache, now, origin>>
    /\ UNCHANGED <<dnsVars, upstream, upVars, fsVars, osVars>>

PxCall(c) == PxCallOf(c, ClientRequests)

\* the request goes out through self.upstream, or req_upstream fails before
UpstreamCall(cl, kind, asked) ==
    LET out == CacheProxy_req_upstream(asked)
    IN  IF ~out.ok THEN ReadyErr(cl, out.err)
        ELSE [cl EXCEPT !.pc = "await_upstream", !.asked = asked, !.since = origin,
                        !.up = Append(@, Sent("upstream", kind, Decompression_request(out.val))),
                        !.events = Append(@, kind)]

\* a get_missing that looks at the store again and takes the entry another
\* request has written meanwhile
PxGetMissing_coalesced(c) ==
    /\ client[c].pc = "boxed"
    /\ client[c].mode = "fetch"
    /\ LET cl == client[c]
           k  == cache_key(cl.norm)
       IN  client' = [client EXCEPT ![c] =
              IF k \in DOMAIN cache /\ cache[k].kind = "cbor"
              THEN CacheProxy_cached_or_forward(cl, cache[k].entry, cl.req, cl.norm, now)
              ELSE UpstreamCall(cl, "fetch", Request_get(cl.norm.uri))]
    /\ UNCHANGED <<cache, now, origin>>
    /\ UNCHANGED <<dnsVars, upstream, upVars, fsVars, osVars>>

\* the boxed future of a miss is polled: CacheProxy::get_missing up to the
\* upstream call
PxGetMissing(c) ==
    /\ client[c].pc = "boxed"
    /\ client[c].mode = "fetch"
    /\ client' = [client EXCEPT ![c] = UpstreamCall(@, "fetch", Request_get(@.norm.uri))]
    /\ UNCHANGED <<cache, now, origin>>
    /\ UNCHANGED <<dnsVars, upstream, upVars, fsVars, osVars>>

\* the boxed future of a stale hit is polled: CacheProxy::update_entry up to
\* the upstream call, or through cached_or_forward when the policy finds
\* the entry fresh for a plain request of the key
PxUpdateEntry(c) ==
    /\ client[c].pc = "boxed"
    /\ client[c].mode = "revalidate"
    /\ LET cl == client[c]
           v  == CachePolicy_before_request(cl.entry.policy,
                     Request_get(Uri_origin(cache_key(cl.norm))), now)
           c1 == [cl EXCEPT !.verdicts = Append(@, Verdict("update", v)),
                            !.events = Append(@, "update")]
       IN  client' = [client EXCEPT ![c] =
                         IF v.verdict = "Fresh"
                         THEN CacheProxy_cached_or_forward(c1, cl.entry, cl.req, cl.norm, now)
                         ELSE UpstreamCall(c1, "revalidate", v.request)]
    /\ UNCHANGED <<cache, now, origin>>
    /\ UNCHANGED <<dnsVars, upstream, upVars, fsVars, osVars>>

\* an entry whose policy is built with the client's request on a fetch
UpdatedEntry_client_request(cl, pts, body, t) ==
    IF cl.mode = "fetch"
    THEN CacheEntry(CachePolicy_new(cl.norm, pts, t), body)
    ELSE LET a == CachePolicy_after_response(cl.entry.policy, cl.asked, pts, t)
         IN  IF a.verdict = "Modified"
             THEN CacheEntry(a.policy, body)
             ELSE CacheEntry(a.policy, cl.entry.body)

\* an entry that takes the body of the answer whatever the policy says of it
UpdatedEntry_answer_body(cl, pts, body, t) ==
    IF cl.mode = "fetch"
    THEN CacheEntry(CachePolicy_new(cl.asked, pts, t), body)
    ELSE CacheEntry(CachePolicy_after_response(cl.entry.policy, cl.asked, pts, t).policy, body)

\* the entry a fetch or a revalidation makes of the upstream answer
UpdatedEntry(cl, pts, body, t) ==
    IF cl.mode = "fetch"
    THEN CacheEntry(CachePolicy_new(cl.asked, pts, t), body)
    ELSE LET a == CachePolicy_after_response(cl.entry.policy, cl.asked, pts, t)
         IN  IF a.verdict = "Modified"
             THEN CacheEntry(a.policy, body)
             ELSE CacheEntry(a.policy, cl.entry.body)

\* the answers the upstream call of a request can complete with: the server
\* produced the answer at some moment since the request went out
UpstreamAnswers(cl) ==
    UNION { OriginAnswersAt(cl.up[Len(cl.up)].request, v) : v \in cl.since..origin }

\* the upstream call of req_upstream completes: the answer, produced by the
\* server at some moment since the request went out, is decoded and
\* buffered, the entry made and written, and cached_or_forward decides
PxUpstreamAnswers(c) ==
    /\ client[c].pc = "await_upstream"
    /\ LET cl == client[c]
       IN  \/ /\ client' = [client EXCEPT ![c] = ReadyErr(cl, ProxyError("Upstream", "connect"))]
              /\ UNCHANGED cache
           \/ /\ client' = [client EXCEPT ![c] =
                                ReadyErr(cl, ProxyError("BoxedUpstream", "body"))]
              /\ UNCHANGED cache
           \/ \E res \in UpstreamAnswers(cl), write_ok \in BOOLEAN :
                 LET dec   == Decompression_response(res)
                     pts   == [status |-> dec.status,
                               headers |-> HeaderMap_remove(dec.headers, "content-encoding")]
                     entry == UpdatedEntry(cl, pts, dec.body, now)
                     key   == cache_key(cl.norm)
                     c1    == [cl EXCEPT !.entry = entry,
                                         !.writes = Append(@, [key |-> key, entry |-> entry]),
                                         !.events = Append(@, "write")]
                 IN  IF write_ok
                     THEN /\ cache' = cacache_write_sync(cache, key, ciborium_into_writer(entry))
                          /\ client' = [client EXCEPT ![c] =
                                CacheProxy_cached_or_forward(c1, entry, cl.req, cl.norm, now)]
                     ELSE /\ UNCHANGED cache
                          /\ client' = [client EXCEPT ![c] =
                                ReadyErr(cl, ProxyError("WriteCache", "io"))]
    /\ UNCHANGED <<now, origin>>
    /\ UNCHANGED <<dnsVars, upstream, upVars, fsVars, osVars>>

\* the forwarded call completes: the answer of the upstream server goes to
\* the client as it is
PxForwardAnswers(c) ==
    /\ client[c].pc = "await_forward"
    /\ LET cl == client[c]
       IN  \/ client' = [client EXCEPT ![c] = ReadyErr(cl, ProxyError("Upstream", "connect"))]
           \/ \E res \in OriginAnswers(cl.up[Len(cl.up)].request) :
                 client' = [client EXCEPT ![c] =
                    ReadyOk(cl, Response(res.status, res.headers, res.body, ""))]
    /\ UNCHANGED <<cache, now, origin>>
    /\ UNCHANGED <<dnsVars, upstream, upVars, fsVars, osVars>>

\* a dropped future that leaves what it had received of the answer in the store
PxCancel_torn(c) ==
    /\ client[c].pc \in { "boxed", "await_upstream", "await_forward" }
    /\ client' = [client EXCEPT ![c] = [@ EXCEPT !.pc = "cancelled",
                                                 !.events = Append(@, "drop")]]
    /\ cache' = IF client[c].pc = "await_upstream"
                THEN cacache_write_sync(cache, cache_key(client[c].norm), Garbage)
                ELSE cache
    /\ UNCHANGED <<now, origin>>
    /\ UNCHANGED <<dnsVars, upstream, upVars, fsVars, osVars>>

\* the connection ends while the future of the request is pending: the
\* future is dropped at the await it stands at
PxCancel(c) ==
    /\ client[c].pc \in { "boxed", "await_upstream", "await_forward" }
    /\ client' = [client EXCEPT ![c] = [@ EXCEPT !.pc = "cancelled",
                                                 !.events = Append(@, "drop")]]
    /\ UNCHANGED <<cache, now, origin>>
    /\ UNCHANGED <<dnsVars, upstream, upVars, fsVars, osVars>>

\* the response went to the connection, or the connection is gone; the
\* client sends its next request
PxDone(c) ==
    /\ client[c].pc \in { "done", "cancelled" }
    /\ client' = [client EXCEPT ![c] = NoClient]
    /\ UNCHANGED <<cache, now, origin>>
    /\ UNCHANGED <<dnsVars, upstream, upVars, fsVars, osVars>>

\* the clock advances
Tick ==
    /\ now < MaxTime
    /\ now' = now + 1
    /\ UNCHANGED <<cache, origin, client>>
    /\ UNCHANGED <<dnsVars, upstream, upVars, fsVars, osVars>>

\* the upstream server publishes new content
OriginPublish ==
    /\ origin < MaxVersion
    /\ origin' = origin + 1
    /\ UNCHANGED <<cache, now, client>>
    /\ UNCHANGED <<dnsVars, upstream, upVars, fsVars, osVars>>

\* no request in the proxy, nothing stored
PxIdle ==
    /\ cache = [ k \in {} |-> Garbage ]
    /\ now = 0
    /\ origin = 1
    /\ client = [ c \in Clients |-> NoClient ]

\* one entry for "a." and a default; one of the two is a Block
DnsConfigs ==
    { [ default_action |-> d,
        actions |-> << [domains |-> << << <<97>> >> >>, action |-> e] >> ] :
        d \in ActionCfgs, e \in BlockCfgs }
    \cup
    { [ default_action |-> d,
        actions |-> << [domains |-> << << <<97>> >> >>, action |-> e] >> ] :
        d \in BlockCfgs, e \in ActionCfgs }

(***************************************************************************)
(* The DNS process (bin/local_cdn-dns.rs): run builds the handler of each  *)
(* configured server in turn and spawns its task, then joins the tasks;    *)
(* a task binds the listeners of its server in order and serves.           *)
(***************************************************************************)
ServerNames == { "s1", "s2" }

MaxListen == 2       \* listeners of one server

\* the listen lists of a server: udp sockets and tcp listeners
ListenLists == { l \in SeqsUpTo({ "udp", "tcp" }, MaxListen) : Len(l) >= 1 }

\* domain::Config of a server, with forward actions that name upstreams the
\* table holds and upstreams it does not hold
StartActions ==
    { [ default_action |-> [kind |-> "block", ttl |-> 0], actions |-> <<>> ],
      [ default_action |-> [kind |-> "forward", upstream |-> << "u1", "u2" >>],
        actions |-> <<>> ],
      [ default_action |-> [kind |-> "forward", upstream |-> << "u1", "ux", "uy" >>],
        actions |-> <<>> ],
      [ default_action |-> [kind |-> "forward", upstream |-> << "uy" >>],
        actions |-> << [domains |-> << << <<97>> >> >>,
                        action |-> [kind |-> "forward", upstream |-> << "ux" >>]] >> ],
      [ default_action |-> [kind |-> "unix_srv_or_forward", path |-> "/run/srv.sock",
                            active |-> [kind |-> "fixed", ttl |-> 30, data |-> <<>>],
                            forward |-> [kind |-> "forward", upstream |-> << "u2", "uy", "ux" >>]],
        actions |-> <<>> ] }

NoServer == [state |-> "none", bound |-> 0, joined |-> FALSE]

\* the process is not running
NoProc ==
    [ pc |-> "off", cfg |-> [ n \in {} |-> {} ], todo |-> {}, srv |-> [ n \in {} |-> NoServer ],
      success |-> TRUE, exit |-> "", err |-> "", ctx |-> "" ]

\* the tasks of the servers are alive
Running(p) == p.pc \in { "building", "joining" }

\* run returns (err: the error, ctx: the server of "{name}: invalid config"):
\* the runtime is dropped and the tasks still alive with it
Returned(p, code, err) ==
    [p EXCEPT !.pc = "exited", !.exit = code, !.err = err,
              !.srv = [ n \in DOMAIN p.srv |->
                          IF p.srv[n].state \in { "binding", "serving" }
                          THEN [p.srv[n] EXCEPT !.state = "aborted"] ELSE p.srv[n] ]]

\* a run that skips a server whose config is invalid
run_build_lenient(p, name, table) ==
    LET h == DomainAction_from_config(p.cfg[name].action, table)
    IN  [p EXCEPT !.todo = @ \ { name },
                  !.srv[name].state = "binding"]

\* run, one turn of `for (name, cfg) in config.servers`: the handler is built
\* and the task spawned, or run returns the error
run_build(p, name, table) ==
    LET h == DomainAction_from_config(p.cfg[name].action, table)
    IN  IF ~h.ok THEN [Returned(p, "FAILURE", h.err) EXCEPT !.ctx = name]
        ELSE [p EXCEPT !.todo = @ \ { name },
                       !.srv[name].state = "binding"]

RunBuild ==
    /\ proc.pc = "building"
    /\ \E name \in proc.todo : proc' = run_build(proc, name, upstream)
    /\ UNCHANGED <<dnsVars, upstream, upVars, fsVars, pxVars, gen, acc>>

\* run reaches runtime.block_on
RunBlockOn ==
    /\ proc.pc = "building"
    /\ proc.todo = {}
    /\ proc' = [proc EXCEPT !.pc = "joining", !.success = TRUE]
    /\ UNCHANGED <<dnsVars, upstream, upVars, fsVars, pxVars, gen, acc>>

\* start_server: the next listener is bound, or the bind fails and the task
\* returns the error; when all are bound the server is started
StartServer(name) ==
    /\ Running(proc)
    /\ proc.srv[name].state = "binding"
    /\ LET sv == proc.srv[name]
       IN  IF sv.bound = Len(proc.cfg[name].listen)
           THEN proc' = [proc EXCEPT !.srv[name].state = "serving"]
           ELSE \E bind_ok \in BOOLEAN :
                   proc' = IF bind_ok
                           THEN [proc EXCEPT !.srv[name].bound = @ + 1]
                           ELSE [proc EXCEPT !.srv[name].state = "bind_failed"]
    /\ UNCHANGED <<dnsVars, upstream, upVars, fsVars, pxVars, gen, acc>>

\* server.block_until_done() returns
ServerStops(name) ==
    /\ Running(proc)
    /\ proc.srv[name].state = "serving"
    /\ \E r \in { "stopped", "server_error" } :
          proc' = [proc EXCEPT !.srv[name].state = r]
    /\ UNCHANGED <<dnsVars, upstream, upVars, fsVars, pxVars, gen, acc>>

\* run, one turn of `while let Some(r) = servers.join_next().await`
RunJoin(name) ==
    /\ proc.pc = "joining"
    /\ ~proc.srv[name].joined
    /\ proc.srv[name].state \in { "bind_failed", "server_error", "stopped" }
    /\ proc' = [proc EXCEPT !.srv[name].joined = TRUE,
                            !.success = @ /\ proc.srv[name].state = "stopped"]
    /\ UNCHANGED <<dnsVars, upstream, upVars, fsVars, pxVars, gen, acc>>

\* the join loop ends: every task has returned
RunExit ==
    /\ proc.pc = "joining"
    /\ \A n \in DOMAIN proc.srv : proc.srv[n].joined
    /\ proc' = Returned(proc, IF proc.success THEN "SUCCESS" ELSE "FAILURE", "")
    /\ UNCHANGED <<dnsVars, upstream, upVars, fsVars, pxVars, gen, acc>>

(***************************************************************************)
(* The certificate tool (certgen/src/main.rs): one run reads the config,   *)
(* creates the CA directory when it is missing, decides with overwrite()   *)
(* whether to generate, and then writes the CA certificate, the server     *)
(* files and the state file.                                               *)
(***************************************************************************)
\* enum Overwrite
OverwritePolicies == { "always", "expired", "never" }

\* the SHA-256 of a config file, two distinct digests
Digests == { "sha_a", "sha_b" }

\* Config: the policy, the digest of its bytes, cert.expire_secs
GenConfigs ==
    [ overwrite : OverwritePolicies, sha : Digests, expire_secs : 1..MaxAge ]

\* the state file: absent, holding a State, or holding bytes that are no State
StateFiles ==
    [ kind : { "missing" }, expire : { 0 }, config_sha256 : { "" } ]
    \cup [ kind : { "state" }, expire : 0..MaxTime, config_sha256 : Digests ]
    \cup [ kind : { "garbage" }, expire : { 0 }, config_sha256 : { "" } ]

\* the files a run works on; the CA certificate lies in the CA directory
GenFiles ==
    { f \in [ state : StateFiles, ca_dir : BOOLEAN, ca_file : BOOLEAN, servers : BOOLEAN ] :
        f.ca_file => f.ca_dir }

MaxRuns == 2         \* runs of the tool, one after the other

\* the tool is not running
NoGen ==
    [ pc |-> "off", config |-> [overwrite |-> "never", sha |-> "", expire_secs |-> 1],
      files |-> [state |-> [kind |-> "missing", expire |-> 0, config_sha256 |-> ""],
                 ca_dir |-> FALSE, ca_file |-> FALSE, servers |-> FALSE],
      old |-> [state |-> [kind |-> "missing", expire |-> 0, config_sha256 |-> ""],
               ca_dir |-> FALSE, ca_file |-> FALSE, servers |-> FALSE],
      time |-> 0, decision |-> "", writes |-> <<>>, err |-> "",
      run |-> 0,                                   \* the runs started so far
      prev |-> [pc |-> "", decision |-> "", writes |-> <<>>] ]  \* how the run before ended

(***************************************************************************)
(* The accept loop of the proxy (cache-proxy/proxy/src/main.rs, run): the  *)
(* listener is bound, then `loop { match listener.accept().await .. }`     *)
(* spawns serve_connection for every accepted stream and logs every        *)
(* accept error; the TCP arm and the Unix arm have the same loop.          *)
(***************************************************************************)
MaxConns == 3        \* connections accepted in one run
MaxAcceptErrors == 2 \* accept errors in one run

\* enum Listen
ListenKinds == { "tcp", "unix" }

\* the proxy is not running
NoAcc == [pc |-> "off", listen |-> "", conns |-> <<>>, errors |-> 0]

\* an accept loop that gives up at the first accept error
accept_error_ends(a) == [a EXCEPT !.errors = @ + 1, !.pc = "ended"]

\* the Err arm of the match on listener.accept(): the error is logged
accept_error(a) == [a EXCEPT !.errors = @ + 1]

\* the Ok arm: tokio::spawn(serve_connection(..)); the task remembers how
\* many accept errors were logged before it
accept_ok(a) == [a EXCEPT !.conns = Append(@, [state |-> "serving", after |-> a.errors])]

AcceptOk ==
    /\ acc.pc = "accepting"
    /\ Len(acc.conns) < MaxConns
    /\ acc' = accept_ok(acc)
    /\ UNCHANGED <<dnsVars, upstream, upVars, fsVars, pxVars, proc, gen>>

AcceptErr ==
    /\ acc.pc = "accepting"
    /\ acc.errors < MaxAcceptErrors
    /\ acc' = accept_error(acc)
    /\ UNCHANGED <<dnsVars, upstream, upVars, fsVars, pxVars, proc, gen>>

\* serve_connection: builder.serve_connection(..).await returns Ok(()) when
\* the client disconnects or Err(e); either is logged and the task ends
ServeConnectionEnds(c) ==
    /\ acc.pc = "accepting"
    /\ c \in 1..Len(acc.conns)
    /\ acc.conns[c].state = "serving"
    /\ \E r \in { "disconnected", "serve_error" } :
          acc' = [acc EXCEPT !.conns[c].state = r]
    /\ UNCHANGED <<dnsVars, upstream, upVars, fsVars, pxVars, proc, gen>>

\* the DNS process, the certificate tool and the proxy's accept loop are not
\* running
OsIdle ==
    /\ proc = NoProc
    /\ gen = NoGen
    /\ acc = NoAcc

\* overwrite() with the expiry compared strictly
overwrite_strict(state, ca_exists, cfg, time, config_sha256) ==
    IF state.kind = "missing" THEN Ok(TRUE)
    ELSE IF state.kind = "garbage" THEN Err("failed to parse state file")
    ELSE IF state.config_sha256 # config_sha256 \/ ~ca_exists THEN Ok(TRUE)
    ELSE CASE cfg.overwrite = "always"  -> Ok(TRUE)
           [] cfg.overwrite = "expired" -> Ok(state.expire < time)
           [] cfg.overwrite = "never"   -> Ok(FALSE)

\* overwrite(): whether this run generates, or the error of the state file
overwrite(state, ca_exists, cfg, time, config_sha256) ==
    IF state.kind = "missing" THEN Ok(TRUE)
    ELSE IF state.kind = "garbage" THEN Err("failed to parse state file")
    ELSE IF state.config_sha256 # config_sha256 \/ ~ca_exists THEN Ok(TRUE)
    ELSE CASE cfg.overwrite = "always"  -> Ok(TRUE)
           [] cfg.overwrite = "expired" -> Ok(state.expire <= time)
           [] cfg.overwrite = "never"   -> Ok(FALSE)

\* main up to the decision: the CA directory is created when it is missing,
\* the clock is read, overwrite() decides
GenDecide ==
    /\ gen.pc = "start"
    /\ LET made == IF gen.files.ca_dir THEN <<>> ELSE << "ca_dir" >>
           d    == overwrite(gen.files.state, gen.files.ca_file, gen.config,
                             gen.time, gen.config.sha)
       IN  gen' = [gen EXCEPT !.files.ca_dir = TRUE,
                              !.writes = made,
                              !.decision = IF ~d.ok THEN "error"
                                           ELSE IF d.val THEN "generate" ELSE "skip",
                              !.err = d.err,
                              !.pc = IF ~d.ok THEN "failed"
                                     ELSE IF d.val THEN "write_ca" ELSE "skipped"]
    /\ UNCHANGED <<dnsVars, upstream, upVars, fsVars, pxVars, proc, acc>>

\* main after the decision: the CA certificate, the server keys and
\* certificates, the state file, in this order; a write can fail
GenWrite ==
    /\ gen.pc \in { "write_ca", "write_servers", "write_state" }
    /\ \E io_ok \in BOOLEAN :
          gen' = IF ~io_ok THEN [gen EXCEPT !.pc = "failed", !.err = gen.pc]
                 ELSE CASE gen.pc = "write_ca" ->
                             [gen EXCEPT !.files.ca_file = TRUE,
                                         !.writes = Append(@, "ca_file"),
                                         !.pc = "write_servers"]
                        [] gen.pc = "write_servers" ->
                             [gen EXCEPT !.files.servers = TRUE,
                                         !.writes = Append(@, "servers"),
                                         !.pc = "write_state"]
                        [] gen.pc = "write_state" ->
                             [gen EXCEPT !.files.state =
                                             [kind |-> "state",
                                              expire |-> gen.time + gen.config.expire_secs,
                                              config_sha256 |-> gen.config.sha],
                                         !.writes = Append(@, "state"),
                                         !.pc = "done"]
    /\ UNCHANGED <<dnsVars, upstream, upVars, fsVars, pxVars, proc, acc>>

\* the tool is started again after a run has ended, with the same arguments
\* and config, on the files the run left, the clock not having gone back
GenRerun ==
    /\ gen.pc \in { "failed", "done", "skipped" }
    /\ gen.run < MaxRuns
    /\ \E t \in gen.time..MaxTime :
          gen' = [gen EXCEPT !.pc = "start",
                             !.run = @ + 1,
                             !.prev = [pc |-> gen.pc, decision |-> gen.decision,
                                       writes |-> gen.writes],
                             !.old = gen.files,
                             !.time = t,
                             !.decision = "",
                             !.writes = <<>>,
                             !.err = ""]
    /\ UNCHANGED <<dnsVars, upstream, upVars, fsVars, pxVars, proc, acc>>

\* no caller of Upstream::lookup
NoTask == [pc |-> "idle", inst |-> NoInstance, seen |-> {}, result |-> NoResult, expired |-> FALSE]

UpIdle ==
    /\ built = Cardinality(UpstreamNames)
    /\ task = [t \in Tasks |-> NoTask]
    /\ retired = {}
    /\ calls = 0
    /\ timeouts = 0

\* no path exists and no UnixService has looked
FsIdle ==
    /\ fs = {}
    /\ probes = <<>>

DnsInit ==
    /\ UpIdle
    /\ FsIdle
    /\ OsIdle
    /\ PxIdle
    /\ config \in DnsConfigs
    /\ upstream = UpstreamTable
    /\ DomainAction_from_config(config, upstream).ok
    /\ router = DomainAction_from_config(config, upstream).val
    /\ request = NoRequest
    /\ pc = "idle"
    /\ selected = {}
    /\ fwd = NoFwd
    /\ queried = <<>>
    /\ sent = <<>>
    /\ info = {}

DnsNext ==
    \/ DnsReceive
    \/ InQueryHandler_handle_request
    \/ ForwardDeadlinePasses
    \/ ForwardLookupReturns
    \/ DnsDone

Spec == DnsInit /\ [][DnsNext]_vars

(***************************************************************************)
(* The router alone: any configuration of CfgDomainLists entries, any      *)
(* query name, one and the same action everywhere.                         *)
(***************************************************************************)
RouterAction == [kind |-> "block", ttl |-> 0]

RouterConfigs ==
    { [default_action |-> RouterAction, actions |-> a] :
        a \in SeqsUpTo({ [domains |-> d, action |-> RouterAction] : d \in CfgDomainLists },
                       MaxEntries) }

RouterInit ==
    /\ UpIdle
    /\ FsIdle
    /\ OsIdle
    /\ PxIdle
    /\ config \in RouterConfigs
    /\ upstream = UpstreamTable
    /\ DomainAction_from_config(config, upstream).ok
    /\ router = DomainAction_from_config(config, upstream).val
    /\ request = NoRequest
    /\ pc = "idle"
    /\ selected = {}
    /\ fwd = NoFwd
    /\ queried = <<>>
    /\ sent = <<>>
    /\ info = {}

\* an IN query for name n passes the gate
RouterReceive ==
    /\ pc = "idle"
    /\ \E n \in QueryNames :
          request' = [ message_type |-> "Query", op_code |-> "Query", query_class |-> "IN",
                       name |-> n, query_type |-> "A" ]
    /\ pc' = "gate"
    /\ UNCHANGED <<config, router, selected, upstream, fwd, queried, sent, info>>
    /\ UNCHANGED <<upVars, fsVars, pxVars, osVars>>

RouterNext == RouterReceive \/ InQueryHandler_handle_request \/ DnsDone

SpecRouter == RouterInit /\ [][RouterNext]_vars

(***************************************************************************)
(* Upstream::lookup, called by concurrent tasks on the handle "u1".  The   *)
(* read guard is a temporary of the statement that awaits the timed        *)
(* lookup: it is held while the lookup runs and dropped when the statement *)
(* ends, before the write lease is asked for.                              *)
(***************************************************************************)
Target == "u1"

UpInit ==
    /\ config \in DnsConfigs
    /\ config.default_action.kind = "block"
    /\ config.actions[1].action.kind = "block"
    /\ upstream \in UpstreamTables
    /\ DomainAction_from_config(config, upstream).ok
    /\ router = DomainAction_from_config(config, upstream).val
    /\ request = NoRequest
    /\ pc = "idle"
    /\ selected = {}
    /\ fwd = NoFwd
    /\ queried = <<>>
    /\ sent = <<>>
    /\ info = {}
    /\ UpIdle
    /\ FsIdle
    /\ OsIdle
    /\ PxIdle

\* task t calls lookup: self.resolver.read().await
UpLookupCall(t) ==
    /\ task[t].pc \in { "idle", "returned" }
    /\ calls < MaxCalls
    /\ calls' = calls + 1
    /\ LET h     == upstream[Target]
           fresh == [NoTask EXCEPT !.seen = retired]
       IN  IF RwLock_can_read(h)
           THEN /\ upstream' = [upstream EXCEPT ![Target].readers = @ \cup { t }]
                /\ task' = [task EXCEPT ![t] = [fresh EXCEPT !.pc = "looking",
                                                             !.inst = h.resolver]]
           ELSE /\ upstream' = [upstream EXCEPT
                                   ![Target].queue = Append(@, [task |-> t, mode |-> "read"])]
                /\ task' = [task EXCEPT ![t] = [fresh EXCEPT !.pc = "wait_read"]]
    /\ UNCHANGED <<dnsVars, fsVars, pxVars, osVars, built, retired, timeouts>>

\* a lookup that also replaces the instance when the resolver hands back an
\* error within the deadline
UpLookupCompletes_rebuilds(t) ==
    /\ task[t].pc = "looking"
    /\ \E result \in ResolverResults :
          LET h0 == [upstream[Target] EXCEPT !.readers = @ \ { t }]
              h1 == IF result.kind # "Ok" /\ h0.readers = {}
                    THEN [h0 EXCEPT !.resolver = Upstream_rebuild(h0, built + 1)]
                    ELSE h0
              h  == RwLock_grant(h1)
          IN  /\ upstream' = [upstream EXCEPT ![Target] = h]
              /\ built' = IF h1 # h0 THEN built + 1 ELSE built
              /\ task' = Resumed([task EXCEPT ![t].pc = "returned",
                                              ![t].result = result], h)
    /\ UNCHANGED <<dnsVars, fsVars, pxVars, osVars, retired, calls, timeouts>>

\* the resolver's lookup finishes within the deadline: Ok(v) => v; the read
\* guard is dropped
UpLookupCompletes(t) ==
    /\ task[t].pc = "looking"
    /\ \E result \in ResolverResults :
          LET h == RwLock_grant([upstream[Target] EXCEPT !.readers = @ \ { t }])
          IN  /\ upstream' = [upstream EXCEPT ![Target] = h]
              /\ task' = Resumed([task EXCEPT ![t].pc = "returned",
                                              ![t].result = result], h)
    /\ UNCHANGED <<dnsVars, fsVars, pxVars, osVars, built, retired, calls, timeouts>>

\* a lookup that keeps its read guard while it asks for the write lease
UpLookupDeadline_keeps_guard(t) ==
    /\ task[t].pc = "looking"
    /\ task' = [task EXCEPT ![t].pc = "want_write", ![t].expired = TRUE]
    /\ timeouts' = timeouts + 1
    /\ UNCHANGED <<dnsVars, upstream, fsVars, pxVars, osVars, built, retired, calls>>

\* the deadline expires first: the lookup future and the read guard are
\* dropped, the error is logged
UpLookupDeadline(t) ==
    /\ task[t].pc = "looking"
    /\ LET h == RwLock_grant([upstream[Target] EXCEPT !.readers = @ \ { t }])
       IN  /\ upstream' = [upstream EXCEPT ![Target] = h]
           /\ task' = Resumed([task EXCEPT ![t].pc = "want_write",
                                           ![t].expired = TRUE], h)
    /\ timeouts' = timeouts + 1
    /\ UNCHANGED <<dnsVars, fsVars, pxVars, osVars, built, retired, calls>>

\* the write guard in hand: the instance is replaced, the guard dropped and
\* the timeout error returned
UpReplace(t, h) ==
    LET h1 == [h EXCEPT !.resolver = Upstream_rebuild(h, built + 1), !.writer = {}]
        h2 == RwLock_grant(h1)
    IN  /\ upstream' = [upstream EXCEPT ![Target] = h2]
        /\ built' = built + 1
        /\ retired' = retired \cup { task[t].inst.id }
        /\ task' = Resumed([task EXCEPT ![t].pc = "returned",
                                        ![t].result = Upstream_timeout_error], h2)

\* self.resolver.write().await: taken at once when the lock is free, queued otherwise
UpWriteRequest(t) ==
    /\ task[t].pc = "want_write"
    /\ LET h == upstream[Target]
       IN  IF RwLock_can_write(h)
           THEN UpReplace(t, [h EXCEPT !.writer = { t }])
           ELSE /\ upstream' = [upstream EXCEPT
                                   ![Target].queue = Append(@, [task |-> t, mode |-> "write"])]
                /\ task' = [task EXCEPT ![t].pc = "wait_write"]
                /\ UNCHANGED <<built, retired>>
    /\ UNCHANGED <<dnsVars, fsVars, pxVars, osVars, calls, timeouts>>

\* a task that waited for the write lease resumes with it
UpWriteGranted(t) ==
    /\ task[t].pc = "write_granted"
    /\ UpReplace(t, upstream[Target])
    /\ UNCHANGED <<dnsVars, fsVars, pxVars, osVars, calls, timeouts>>

UpNext ==
    \E t \in Tasks :
        \/ UpLookupCall(t)
        \/ UpLookupCompletes(t)
        \/ UpLookupDeadline(t)
        \/ UpWriteRequest(t)
        \/ UpWriteGranted(t)

SpecUp == UpInit /\ [][UpNext]_vars

\* every lookup of the resolver ends or is cut off at the deadline, a task
\* that runs goes on running, and the lock lets its waiters in in order; no
\* task has to call lookup
UpFairness ==
    \A t \in Tasks :
        /\ WF_vars(UpLookupCompletes(t) \/ UpLookupDeadline(t))
        /\ WF_vars(UpWriteRequest(t))
        /\ WF_vars(UpWriteGranted(t))

SpecUpFair == UpInit /\ [][UpNext]_vars /\ UpFairness

(***************************************************************************)
(* The DNS server with a UnixService as its default action, while the      *)
(* companion process creates and removes its socket.                       *)
(***************************************************************************)
UnixConfigs ==
    { [ default_action |-> d,
        actions |-> << [domains |-> << << <<97>> >> >>, action |-> [kind |-> "block", ttl |-> 0]] >> ] :
        d \in UnixCfgs }

UnixInit ==
    /\ UpIdle
    /\ PxIdle
    /\ OsIdle
    /\ fs \in SUBSET Paths
    /\ probes = <<>>
    /\ config \in UnixConfigs
    /\ upstream = UpstreamTable
    /\ DomainAction_from_config(config, upstream).ok
    /\ router = DomainAction_from_config(config, upstream).val
    /\ request = NoRequest
    /\ pc = "idle"
    /\ selected = {}
    /\ fwd = NoFwd
    /\ queried = <<>>
    /\ sent = <<>>
    /\ info = {}

\* the companion process binds its socket
FsCreate(p) ==
    /\ p \notin fs
    /\ fs' = fs \cup { p }
    /\ UNCHANGED <<dnsVars, upstream, upVars, probes, pxVars, osVars>>

\* the socket file is removed
FsRemove(p) ==
    /\ p \in fs
    /\ fs' = fs \ { p }
    /\ UNCHANGED <<dnsVars, upstream, upVars, probes, pxVars, osVars>>

UnixNext ==
    \/ DnsReceive
    \/ InQueryHandler_handle_request
    \/ ForwardDeadlinePasses
    \/ ForwardLookupReturns
    \/ DnsDone
    \/ \E p \in Paths : FsCreate(p) \/ FsRemove(p)

SpecUnix == UnixInit /\ [][UnixNext]_vars

(***************************************************************************)
(* The proxy serving its clients, the clock running and the upstream       *)
(* server publishing.  The store starts empty or with bytes that are no    *)
(* entry under "/a".                                                       *)
(***************************************************************************)
PxInit ==
    /\ UpIdle
    /\ FsIdle
    /\ OsIdle
    /\ config = [default_action |-> RouterAction, actions |-> <<>>]
    /\ upstream = UpstreamTable
    /\ router = DomainAction_from_config(config, upstream).val
    /\ request = NoRequest
    /\ pc = "idle"
    /\ selected = {}
    /\ fwd = NoFwd
    /\ queried = <<>>
    /\ sent = <<>>
    /\ info = {}
    /\ cache \in { [ k \in {} |-> Garbage ], [ k \in { "/a" } |-> Garbage ] }
    /\ now = 0
    /\ origin = 1
    /\ client = [ c \in Clients |-> NoClient ]

PxNext ==
    \/ \E c \in Clients :
          \/ PxCall(c)
          \/ PxGetMissing(c)
          \/ PxUpdateEntry(c)
          \/ PxUpstreamAnswers(c)
          \/ PxForwardAnswers(c)
          \/ PxCancel(c)
          \/ PxDone(c)
    \/ Tick
    \/ OriginPublish

SpecProxy == PxInit /\ [][PxNext]_vars

(***************************************************************************)
(* The proxy with connections served at the same time: every connection    *)
(* is a task of its own (main.rs run), each with a clone of the service,   *)
(* and all of them ask for the same key.                                   *)
(***************************************************************************)
ConcClients == 1..MaxConc

ConcRequests == { BaseRequest }

ConcInit ==
    /\ UpIdle
    /\ FsIdle
    /\ OsIdle
    /\ config = [default_action |-> RouterAction, actions |-> <<>>]
    /\ upstream = UpstreamTable
    /\ router = DomainAction_from_config(config, upstream).val
    /\ request = NoRequest
    /\ pc = "idle"
    /\ selected = {}
    /\ fwd = NoFwd
    /\ queried = <<>>
    /\ sent = <<>>
    /\ info = {}
    /\ cache = [ k \in {} |-> Garbage ]
    /\ now = 0
    /\ origin = 1
    /\ client = [ c \in ConcClients |-> NoClient ]

ConcCall(c) == PxCallOf(c, ConcRequests)

ConcNext ==
    \/ \E c \in ConcClients :
          \/ ConcCall(c)
          \/ PxGetMissing(c)
          \/ PxUpdateEntry(c)
          \/ PxUpstreamAnswers(c)
          \/ PxForwardAnswers(c)
          \/ PxCancel(c)
          \/ PxDone(c)
    \/ Tick
    \/ OriginPublish

SpecConc == ConcInit /\ [][ConcNext]_vars

(***************************************************************************)
(* The DNS process from the servers loop of run on.  config.servers is a   *)
(* HashMap, so the loop visits the servers in any order; the tasks run on  *)
(* the worker threads of the runtime while run goes on.                    *)
(***************************************************************************)
\* the request path and the proxy are at rest
ServicesIdle ==
    /\ UpIdle
    /\ FsIdle
    /\ PxIdle
    /\ config = [default_action |-> RouterAction, actions |-> <<>>]
    /\ upstream = UpstreamTable
    /\ router = DomainAction_from_config(config, upstream).val
    /\ request = NoRequest
    /\ pc = "idle"
    /\ selected = {}
    /\ fwd = NoFwd
    /\ queried = <<>>
    /\ sent = <<>>
    /\ info = {}

StartInit ==
    /\ ServicesIdle
    /\ gen = NoGen
    /\ acc = NoAcc
    /\ \E cfg \in [ ServerNames -> [ action : StartActions, listen : ListenLists ] ] :
          proc = [ pc |-> "building", cfg |-> cfg, todo |-> ServerNames,
                   srv |-> [ n \in ServerNames |-> NoServer ],
                   success |-> TRUE, exit |-> "", err |-> "", ctx |-> "" ]

StartNext ==
    \/ RunBuild
    \/ RunBlockOn
    \/ \E name \in ServerNames :
          \/ StartServer(name)
          \/ ServerStops(name)
          \/ RunJoin(name)
    \/ RunExit

\* run goes on until it returns and a spawned task runs until it serves; a
\* server that serves can go on serving for ever
StartFairness ==
    /\ WF_vars(RunBuild)
    /\ WF_vars(RunBlockOn)
    /\ WF_vars(RunExit)
    /\ \A name \in ServerNames :
          WF_vars(StartServer(name)) /\ WF_vars(RunJoin(name))

SpecStart == StartInit /\ [][StartNext]_vars /\ StartFairness

(***************************************************************************)
(* The certificate tool run over any files and any config, and run again.  *)
(***************************************************************************)
GenInit ==
    /\ ServicesIdle
    /\ proc = NoProc
    /\ acc = NoAcc
    /\ \E c \in GenConfigs, f \in GenFiles, t \in 0..MaxTime :
          gen = [NoGen EXCEPT !.pc = "start", !.config = c, !.files = f,
                              !.old = f, !.time = t, !.run = 1]

GenNext ==
    \/ GenDecide
    \/ GenWrite
    \/ GenRerun

SpecGen == GenInit /\ [][GenNext]_vars

(***************************************************************************)
(* The proxy from the bound listener on.                                   *)
(***************************************************************************)
AcceptInit ==
    /\ ServicesIdle
    /\ proc = NoProc
    /\ gen = NoGen
    /\ \E l \in ListenKinds : acc = [NoAcc EXCEPT !.pc = "accepting", !.listen = l]

AcceptNext ==
    \/ AcceptOk
    \/ AcceptErr
    \/ \E c \in 1..MaxConns : ServeConnectionEnds(c)

SpecAccept == AcceptInit /\ [][AcceptNext]_vars

(***************************************************************************)
(* Vocabulary of the router claims.                                        *)
(***************************************************************************)
\* d is a suffix of n at label boundaries (n itself, and the root, included)
LabelSuffix(d, n) ==
    /\ Len(d) <= Len(n)
    /\ \A i \in 1..Len(d) : d[i] = n[Len(n) - Len(d) + i]

\* the presentation form of a name as bytes: every label followed by "."
RECURSIVE NameBytes(_)
NameBytes(n) == IF n = <<>> THEN <<>> ELSE Head(n) \o <<46>> \o NameBytes(Tail(n))

ByteSuffix(d, n) ==
    LET bd == NameBytes(d)
        bn == NameBytes(n)
    IN  /\ Len(bd) <= Len(bn)
        /\ \A i \in 1..Len(bd) : bd[i] = bn[Len(bn) - Len(bd) + i]

EntryDomains(i) == { config.actions[i].domains[j] : j \in 1..Len(config.actions[i].domains) }

ConfiguredDomains == UNION { EntryDomains(i) : i \in 1..Len(config.actions) }

\* the name the router is asked about
QName == LowerName(request.name)

Matching == { d \in ConfiguredDomains : LabelSuffix(d, QName) }

Longest(S) == CHOOSE d \in S : \A e \in S : Len(e) <= Len(d)

\* the request passed the gate and the router has dispatched it
Dispatched == pc \in { "lookup", "done" } /\ selected # {}

\* C1: after dispatch the selected action belongs to the configured domain that
\* is the longest label-wise suffix of the query name (labels compared as the
\* bytes the tree stores); the default is selected exactly when no configured
\* domain is a label-wise suffix.  A domain that is only a byte suffix of the
\* name, or a strict descendant of it, is never the reason for a selection.
C1_LongestSuffix ==
    Dispatched =>
        /\ (selected = {0}) <=> (Matching = {})
        /\ Matching # {} =>
              \E h \in 1..Len(config.actions) :
                  selected = {h} /\ Longest(Matching) \in EntryDomains(h)
        /\ (\A d \in ConfiguredDomains :
                \/ (ByteSuffix(d, QName) /\ ~LabelSuffix(d, QName))
                \/ (LabelSuffix(QName, d) /\ d # QName)) => selected = {0}

\* two configured suffixes of different length exist, a third configured name
\* is only a byte suffix of the query name, and the action of the longer
\* suffix, a strict ancestor of the query name, was dispatched
C1_Witness ==
    /\ Dispatched
    /\ Cardinality(Matching) >= 2
    /\ \E h \in 1..Len(config.actions) :
          selected = {h} /\ Longest(Matching) \in EntryDomains(h)
    /\ Len(QName) > Len(Longest(Matching))
    /\ \E d \in ConfiguredDomains : ByteSuffix(d, QName) /\ ~LabelSuffix(d, QName)

\* C2: a configured domain that equals the query name up to ASCII case has its
\* action selected
C2_CaseFolded ==
    Dispatched =>
        \A d \in ConfiguredDomains :
            LowerName(d) = LowerName(request.name) =>
                \E h \in 1..Len(config.actions) :
                    /\ selected = {h}
                    /\ \E e \in EntryDomains(h) : LowerName(e) = LowerName(request.name)

(***************************************************************************)
(* Vocabulary of the action claims.                                        *)
(***************************************************************************)
\* the action the router selected
SelAction == ActionOf(router, CHOOSE h \in selected : TRUE)

Finished(kind) == pc = "done" /\ selected # {} /\ SelAction.kind = kind

NoRecordsIn(resp) ==
    /\ resp.answers = <<>>
    /\ resp.name_servers = <<>>
    /\ resp.soa = <<>>
    /\ resp.additionals = <<>>

OnlyAnswers(resp) ==
    /\ resp.name_servers = <<>>
    /\ resp.soa = <<>>
    /\ resp.additionals = <<>>

ErrorCodes == { "FormErr", "ServFail", "NXDomain", "NotImp", "Refused" }

\* C3: a Block answers A with one 0.0.0.0 record and AAAA with one :: record,
\* both with the query name and the configured TTL, answers any other type
\* with no records and a non-error code, and asks no upstream.
C3_Block ==
    Finished("block") =>
        /\ Len(sent) = 1
        /\ queried = <<>>
        /\ OnlyAnswers(sent[1])
        /\ sent[1].response_code \notin ErrorCodes
        /\ request.query_type = "A" =>
              sent[1].answers =
                  << [name |-> QName, ttl |-> SelAction.ttl,
                      rdata |-> [type |-> "A", addr |-> "0.0.0.0"]] >>
        /\ request.query_type = "AAAA" =>
              sent[1].answers =
                  << [name |-> QName, ttl |-> SelAction.ttl,
                      rdata |-> [type |-> "AAAA", addr |-> "::"]] >>
        /\ request.query_type \notin { "A", "AAAA" } => sent[1].answers = <<>>

\* a Block with a non-zero TTL has answered an MX query
C3_Witness ==
    /\ Finished("block")
    /\ request.query_type = "MX"
    /\ SelAction.ttl = 60
    /\ sent # <<>>

\* C4: a Fixed answers every query, whatever its type, with the configured
\* records in the configured order, each with the query name and the
\* configured TTL; the other sections are empty.
C4_Fixed ==
    Finished("fixed") =>
        /\ Len(sent) = 1
        /\ OnlyAnswers(sent[1])
        /\ Len(sent[1].answers) = Len(SelAction.data)
        /\ \A k \in 1..Len(SelAction.data) :
              sent[1].answers[k] =
                  [name |-> QName, ttl |-> SelAction.ttl, rdata |-> SelAction.data[k]]

\* a Fixed with two different records has answered a query that is not for A
C4_Witness ==
    /\ Finished("fixed")
    /\ Len(SelAction.data) = 2
    /\ request.query_type = "MX"
    /\ Len(sent) = 1
    /\ Len(sent[1].answers) = 2

\* a Forward action was selected and its future is running or has finished
ForwardSelected == selected # {} /\ SelAction.kind = "forward"

\* C5: a Forward asks its upstreams in configured order, one at a time; a
\* success is the last lookup it makes, and the response then sent has the
\* records of that lookup as its answers, all from that upstream, and one
\* additional record, a TXT "upstream <name>" with TTL 0 naming it.
C5_ForwardSuccess ==
    ForwardSelected =>
        LET k == Len(fwd.results)
        IN  /\ Len(queried) = IF pc = "lookup" THEN k + 1 ELSE k
            /\ Len(queried) <= Len(SelAction.resolvers)
            /\ \A j \in 1..Len(queried) : queried[j] = SelAction.resolvers[j]
            /\ \A j \in 1..(k - 1) : fwd.results[j].kind # "Ok"
            /\ pc = "lookup" => \A j \in 1..k : fwd.results[j].kind # "Ok"
            /\ (k > 0 /\ fwd.results[k].kind = "Ok") =>
                  /\ pc = "done"
                  /\ Len(sent) = 1
                  /\ sent[1].answers = fwd.results[k].records
                  /\ \A a \in 1..Len(sent[1].answers) :
                        sent[1].answers[a].rdata.from = queried[k]
                  /\ sent[1].name_servers = <<>>
                  /\ sent[1].soa = <<>>
                  /\ sent[1].additionals =
                        << [name |-> QName, ttl |-> 0,
                            rdata |-> [type |-> "TXT",
                                       txt |-> "upstream " \o upstream[queried[k]].name]] >>

\* the first of two upstreams answered with two records; the second was not asked
C5_Witness ==
    /\ Finished("forward")
    /\ Len(SelAction.resolvers) = 2
    /\ SelAction.resolvers[1] # SelAction.resolvers[2]
    /\ queried = << SelAction.resolvers[1] >>
    /\ Len(fwd.results) = 1
    /\ fwd.results[1].kind = "Ok"
    /\ Len(sent) = 1
    /\ Len(sent[1].answers) = 2

\* every upstream of the Forward was asked and every lookup failed
AllFailed ==
    /\ Finished("forward")
    /\ Len(fwd.results) = Len(SelAction.resolvers)
    /\ \A j \in 1..Len(fwd.results) : fwd.results[j].kind # "Ok"

\* the response code of the last NoRecordsFound among the results, or ServFail
LastNoRecordsCode(results) ==
    LET S == { j \in 1..Len(results) : results[j].kind = "NoRecordsFound" }
    IN  IF S = {} THEN "ServFail"
        ELSE results[CHOOSE j \in S : \A m \in S : m <= j].response_code

\* C6: when every upstream fails the response has no records and carries the
\* response code of the last NoRecordsFound failure, whatever failed after it,
\* and ServFail when there was none (also with no upstream at all).
C6_ForwardAllFailed ==
    AllFailed =>
        /\ Len(sent) = 1
        /\ NoRecordsIn(sent[1])
        /\ sent[1].response_code = LastNoRecordsCode(fwd.results)

\* NXDomain from the first upstream, then a timeout of the second: NXDomain is sent
C6_Witness ==
    /\ AllFailed
    /\ Len(fwd.results) = 2
    /\ fwd.results[1].kind = "NoRecordsFound"
    /\ fwd.results[1].response_code = "NXDomain"
    /\ fwd.results[2].kind = "Timeout"
    /\ Len(sent) = 1
    /\ sent[1].response_code = "NXDomain"

\* C7: with upstreams [u1, u2], when the lookup on u1 outlasted u1's timeout
\* and u2 answered, the response has u2's records and the TXT "upstream u2",
\* and u1's handle holds another resolver instance than the one that was asked.
C7_FailoverRebuilds ==
    ( /\ Finished("forward")
      /\ SelAction.resolvers = << "u1", "u2" >>
      /\ 1 \in fwd.late
      /\ Len(fwd.results) = 2
      /\ fwd.results[2].kind = "Ok" ) =>
        /\ Len(sent) = 1
        /\ sent[1].answers = fwd.results[2].records
        /\ sent[1].additionals =
              << [name |-> QName, ttl |-> 0,
                  rdata |-> [type |-> "TXT", txt |-> "upstream u2"]] >>
        /\ upstream["u1"].resolver.id # fwd.used[1].id

\* C9: the gate answers a message that is not a Query with FormErr, otherwise
\* an op code other than Query with NotImp, otherwise a class other than IN
\* with no records and NoError; in that order.
C9_Gate ==
    (pc = "done" /\ request.message_type # "Query" =>
        /\ Len(sent) = 1
        /\ NoRecordsIn(sent[1])
        /\ sent[1].response_code = "FormErr")
    /\ (pc = "done" /\ request.message_type = "Query" /\ request.op_code # "Query" =>
        /\ Len(sent) = 1
        /\ NoRecordsIn(sent[1])
        /\ sent[1].response_code = "NotImp")
    /\ (pc = "done" /\ request.message_type = "Query" /\ request.op_code = "Query"
            /\ request.query_class # "IN" =>
        /\ Len(sent) = 1
        /\ NoRecordsIn(sent[1])
        /\ sent[1].response_code = "NoError")

\* a Response message of class CH with a non-standard op code got FormErr
C9_Witness ==
    /\ pc = "done"
    /\ request.message_type = "Response"
    /\ request.op_code = "Update"
    /\ request.query_class = "CH"
    /\ Len(sent) = 1
    /\ sent[1].response_code = "FormErr"

\* the request is an IN-class standard query
InQuery ==
    /\ request.message_type = "Query"
    /\ request.op_code = "Query"
    /\ request.query_class = "IN"

\* C10: once the gate has run, the router has been invoked if and only if the
\* request is a Query message with op code Query and class IN; for a rejected
\* request no action was dispatched and no upstream was asked.
C10_OnlyInQueries ==
    pc \in { "lookup", "done" } =>
        /\ (selected # {}) <=> InQuery
        /\ ~InQuery => selected = {} /\ queried = <<>> /\ fwd = NoFwd

\* a CH-class query to a server whose every action forwards to an upstream
\* was answered without a dispatch
C10_Witness ==
    /\ pc = "done"
    /\ request.message_type = "Query"
    /\ request.op_code = "Query"
    /\ request.query_class = "CH"
    /\ router.default.kind = "forward"
    /\ router.default.resolvers # <<>>
    /\ selected = {}
    /\ queried = <<>>

\* C8: a lookup whose deadline expired returns the handle's own Timeout
\* error, not a result of the resolver, and by then the handle holds another
\* instance, built from the stored config and options; a lookup that was
\* called after a timed-out lookup returned does not run on the instance
\* that lookup timed out on.
C8_TimeoutRebuilds ==
    \A t \in Tasks :
        /\ (task[t].pc = "returned" /\ task[t].expired) =>
              /\ task[t].result = [kind |-> "Timeout", src |-> "deadline"]
              /\ upstream[Target].resolver.id # task[t].inst.id
              /\ upstream[Target].resolver.id > task[t].inst.id
              /\ upstream[Target].resolver.config = upstream[Target].config
              /\ upstream[Target].resolver.options = upstream[Target].options
        /\ (task[t].pc = "returned" /\ ~task[t].expired) => task[t].result.src = "resolver"
        /\ task[t].pc = "looking" => task[t].inst.id \notin task[t].seen

\* one task has returned from a timed-out lookup and another, called after
\* that, is looking up on the new instance
C8_Witness ==
    \E t, o \in Tasks :
        /\ task[t].pc = "returned"
        /\ task[t].expired
        /\ task[o].pc = "looking"
        /\ task[t].inst.id \in task[o].seen
        /\ task[o].inst = upstream[Target].resolver
        /\ task[o].inst.id # task[t].inst.id

(***************************************************************************)
(* The UnixService claim.                                                  *)
(***************************************************************************)
UnixSelected ==
    /\ selected # {}
    /\ SelAction.kind \in { "unix_srv_or_block", "unix_srv_or_forward" }

\* the check made for the request being handled
LastProbe == probes[Len(probes)]

\* C11: a UnixService hands the request to its active action when the path
\* exists at the time of the request and to its inactive action otherwise:
\* the response is the active Fixed's, or the inactive Block's or Forward's.
\* The check is made anew for every request: of two consecutive requests
\* that found the path in different states, one went to the active and the
\* other to the inactive action.
C11_UnixGated ==
    /\ (pc \in { "lookup", "done" } /\ UnixSelected) =>
          /\ Len(probes) >= 1
          /\ LastProbe.branch = (IF LastProbe.exists THEN "active" ELSE "inactive")
          /\ LastProbe.exists =>
                /\ pc = "done"
                /\ sent = << Fixed_response(SelAction.active, request) >>
                /\ fwd = NoFwd
                /\ queried = <<>>
          /\ (~LastProbe.exists /\ SelAction.kind = "unix_srv_or_block") =>
                /\ pc = "done"
                /\ sent = << Block_response(SelAction.inactive, request) >>
          /\ (~LastProbe.exists /\ SelAction.kind = "unix_srv_or_forward") =>
                /\ fwd.i >= 1
                /\ \A i \in 1..Len(queried) : queried[i] = SelAction.inactive.resolvers[i]
                /\ pc = "done" =>
                      \/ sent = << Forward_failure(fwd.code) >>
                      \/ \E u \in UpstreamNames :
                            sent = << Forward_response(request, upstream[u],
                                                       fwd.results[Len(fwd.results)].records) >>
    /\ (Len(probes) = 2 /\ probes[1].exists # probes[2].exists) =>
          probes[1].branch # probes[2].branch

\* a request answered by the inactive Forward, after a request that found
\* the path and was answered by the active Fixed
C11_Witness ==
    /\ pc = "done"
    /\ UnixSelected
    /\ SelAction.kind = "unix_srv_or_forward"
    /\ Len(probes) = 2
    /\ probes[1].exists
    /\ probes[1].branch = "active"
    /\ ~probes[2].exists
    /\ probes[2].branch = "inactive"
    /\ Len(queried) >= 1
    /\ Len(sent) = 1
    /\ sent[1].additionals # <<>>

(***************************************************************************)
(* Vocabulary of the proxy claims.                                         *)
(***************************************************************************)
\* GET without an Authorization header
Cacheable(r) == r.method = "GET" /\ "authorization" \notin DOMAIN r.headers

\* the Host header names the pinned authority
HostPinned(r) == "host" \in DOMAIN r.headers /\ r.headers["host"] = << Authority >>

Count(seq, x) == Cardinality({ i \in 1..Len(seq) : seq[i] = x })

\* x comes before y in seq, both being there
Before(seq, x, y) ==
    \E i, j \in 1..Len(seq) : i < j /\ seq[i] = x /\ seq[j] = y

Kinds(up) == [ i \in 1..Len(up) |-> up[i].kind ]

\* C12: a request that is not a GET, or carries Authorization, goes to
\* CacheProxy::forward at once: the store is not read, no policy is asked,
\* nothing is written, and the one request sent upstream (none when the
\* authority check rejects the Host) is the forwarded one.  A request whose
\* handling read the store is a GET without Authorization.
C12_CacheabilityFilter ==
    \A c \in Clients :
        LET cl == client[c]
        IN  cl.pc # "idle" =>
              /\ ~Cacheable(cl.req) =>
                    /\ Count(cl.events, "read") = 0
                    /\ cl.writes = <<>>
                    /\ cl.verdicts = <<>>
                    /\ cl.events[1] = "forward"
                    /\ Count(cl.events, "forward") = 1
                    /\ Len(cl.up) = (IF HostPinned(cl.req) THEN 1 ELSE 0)
                    /\ \A i \in 1..Len(cl.up) : cl.up[i].kind = "forward"
              /\ Count(cl.events, "read") >= 1 => Cacheable(cl.req)
              /\ Cacheable(cl.req) => cl.events[1] = "read"

\* a GET with Authorization answered by the upstream server while the store
\* holds an entry for its path
C12_Witness ==
    \E c \in Clients :
        /\ client[c].pc = "done"
        /\ client[c].ok
        /\ client[c].req.method = "GET"
        /\ "authorization" \in DOMAIN client[c].req.headers
        /\ Kinds(client[c].up) = << "forward" >>
        /\ "/a" \in DOMAIN cache
        /\ cache["/a"].kind = "cbor"

\* the entry the store holds under key k, decoded
Stored(k) == cache[k].entry

HasEntry(k) == k \in DOMAIN cache /\ cache[k].kind = "cbor"

\* the call of client c is made in this step and finds the store readable
Called(c) ==
    /\ client[c].pc = "idle"
    /\ client'[c].pc # "idle"
    /\ client'[c].err.kind # "ReadCache"

\* C13: when a cacheable request finds a storable entry that the policy
\* calls Fresh for the request without its Accept-Encoding, the call is
\* answered at once with the stored status and body and the stored headers,
\* Cache-Control being no-store alone; nothing is sent upstream and the
\* store is not written.
C13_FreshHit ==
    [][ \A c \in Clients :
          LET req == client'[c].req
              k   == cache_key(req)
          IN  ( /\ Called(c)
                /\ Cacheable(req)
                /\ HasEntry(k)
                /\ CachePolicy_is_storable(Stored(k).policy)
                /\ CachePolicy_before_request(Stored(k).policy,
                        [req EXCEPT !.headers = HeaderMap_remove(@, "accept-encoding")],
                        now).verdict = "Fresh" ) =>
                /\ client'[c].pc = "done"
                /\ client'[c].ok
                /\ client'[c].response.status = Stored(k).policy.status
                /\ client'[c].response.body = Stored(k).body
                /\ DOMAIN client'[c].response.headers =
                      DOMAIN Stored(k).policy.res_headers \cup { "cache-control" }
                /\ \A h \in DOMAIN client'[c].response.headers :
                      client'[c].response.headers[h] =
                         IF h = "cache-control" THEN << "no-store" >>
                         ELSE Stored(k).policy.res_headers[h]
                /\ client'[c].up = <<>>
                /\ client'[c].writes = <<>>
                /\ cache' = cache ]_vars

\* a request with Accept-Encoding served from an entry stored with
\* Cache-Control: max-age, the content upstream having changed since
C13_Witness ==
    \E c \in Clients :
        /\ client[c].pc = "done"
        /\ client[c].ok
        /\ client[c].events = << "read", "verdict", "ready" >>
        /\ client[c].verdicts[1].verdict = "Fresh"
        /\ "accept-encoding" \in DOMAIN client[c].req.headers
        /\ client[c].entry.policy.res_headers["cache-control"] = << "max-age" >>
        /\ client[c].response.headers["cache-control"] = << "no-store" >>
        /\ client[c].response.body.data = 1
        /\ origin = 2

\* the request went out with scheme https and the pinned authority
Pinned(r) == r.uri.scheme = { "https" } /\ r.uri.authority = { Authority }

HostOther(r) ==
    /\ "host" \in DOMAIN r.headers
    /\ Authority_try_from(r.headers["host"][1]).ok
    /\ r.headers["host"] # << Authority >>

\* C15: a request whose Host header names another authority than the pinned
\* one is answered with status 400 for the error UnexpectedHost, and no
\* request is sent upstream for it, whether the store holds no entry, a fresh
\* one or a stale one (the store being readable) and whether the request is
\* cacheable or not.
C15_AuthorityMismatch ==
    \A c \in Clients :
        ( /\ client[c].pc # "idle"
          /\ HostOther(client[c].req)
          /\ client[c].err.kind \notin { "ReadCache", "Decode" } ) =>
            /\ client[c].up = <<>>
            /\ client[c].pc = "done" =>
                  /\ ~client[c].ok
                  /\ client[c].err.kind = "UnexpectedHost"
                  /\ client[c].response.status = 400

\* the upstream call of client c is answered in this step
Answered(c) ==
    /\ client[c].pc = "await_upstream"
    /\ client'[c].pc \notin { "await_upstream", "cancelled" }
    /\ client'[c].err.kind \notin { "Upstream", "BoxedUpstream" }

\* the answer res as req_upstream returns it: decoded, without Content-Encoding
PartsOf(res) ==
    [status |-> res.status, headers |-> HeaderMap_remove(res.headers, "content-encoding")]

Buffered(res) == Body(res.body.data, "identity")

\* C16: a cacheable request that finds no entry under its key sends exactly
\* one fetch upstream and nothing else before the answer; the entry made of
\* the answer holds the policy built from the fetch request and the answer,
\* and the buffered body; it is written under the key before before_request
\* is asked, and asked on that entry; when the verdict is Fresh the client
\* gets the fetched body and nothing more is sent.
C16_CacheMiss ==
    [][ \A c \in Clients :
          LET cl  == client[c]
              cn  == client'[c]
              key == cache_key(cl.req)
          IN  /\ (cl.mode = "fetch" /\ cl.pc = "boxed") =>
                    /\ Cacheable(cl.req)
                    /\ cl.up = <<>> /\ cl.writes = <<>> /\ cl.verdicts = <<>>
                    /\ cn.pc \notin { "boxed", "cancelled" } =>
                          Kinds(cn.up) = << "fetch" >> \/ cn.pc = "idle"
              /\ (cl.mode = "fetch" /\ Answered(c)) =>
                    /\ Kinds(cl.up) = << "fetch" >>
                    /\ cl.writes = <<>> /\ cl.verdicts = <<>>
                    /\ IF cn.err.kind = "WriteCache"
                       THEN cn.writes = <<>> /\ cache' = cache /\ cn.up = cl.up
                       ELSE \E res \in UpstreamAnswers(cl) :
                              LET entry == CacheEntry(
                                              CachePolicy_new(Request_get(cl.req.uri),
                                                              PartsOf(res), now),
                                              Buffered(res))
                                  v == CachePolicy_before_request(entry.policy,
                                           [cl.req EXCEPT !.headers =
                                               HeaderMap_remove(@, "accept-encoding")], now)
                              IN  /\ cn.writes = << [key |-> key, entry |-> entry] >>
                                  /\ cache' = cacache_write_sync(cache, key,
                                                                 ciborium_into_writer(entry))
                                  /\ ciborium_from_reader(cache'[key]).val = entry
                                  /\ SubSeq(cn.events, 1, 4) = << "read", "fetch", "write", "rerun" >>
                                  /\ cn.verdicts = << Verdict("rerun", v) >>
                                  /\ v.verdict = "Fresh" =>
                                        /\ cn.pc = "done" /\ cn.ok
                                        /\ cn.response.body = Buffered(res)
                                        /\ cn.response.status = res.status
                                        /\ cn.up = cl.up ]_vars

\* a miss answered with the fetched body, written before the verdict
C16_Witness ==
    \E c \in Clients :
        /\ client[c].mode = "fetch"
        /\ client[c].pc = "done" /\ client[c].ok
        /\ client[c].events = << "read", "fetch", "write", "rerun", "ready" >>
        /\ Kinds(client[c].up) = << "fetch" >>
        /\ Len(client[c].writes) = 1
        /\ client[c].response.body = client[c].writes[1].entry.body
        /\ client[c].response.body.data > 0
        /\ cache_key(client[c].req) \in DOMAIN cache

\* the request without its Accept-Encoding, as the policy is asked with it
Normal(r) == [r EXCEPT !.headers = HeaderMap_remove(@, "accept-encoding")]

\* the request as CacheProxy::forward sends it
Forwarded(r) ==
    Sent("forwarded", "forward",
         [r EXCEPT !.uri = [@ EXCEPT !.scheme = { "https" }, !.authority = { Authority }]])

\* the handling of client c went from the read of the store to forward
\* without a fetch or a revalidation
ForwardedOnHit(cl) ==
    /\ cl.pc # "idle"
    /\ cl.mode = ""
    /\ Len(cl.events) >= 2
    /\ cl.events[1] = "read"
    /\ "forward" \in { cl.events[i] : i \in 1..Len(cl.events) }

\* C17: when a cacheable request finds an entry whose policy is not
\* storable, or one for which before_request says Stale without match, the
\* call hands the client's request to CacheProxy::forward, once: the request
\* goes upstream as it came when its Host is the pinned authority and is
\* rejected otherwise; nothing is written and the store keeps its entries,
\* then and until the response is ready.
C17_HitForwarded ==
    [][ \A c \in Clients :
          LET req == client'[c].req
              cn  == client'[c]
              k   == cache_key(req)
          IN  /\ ( /\ Called(c) /\ Cacheable(req) /\ HasEntry(k)
                    /\ \/ ~CachePolicy_is_storable(Stored(k).policy)
                       \/ LET v == CachePolicy_before_request(Stored(k).policy, Normal(req), now)
                          IN  v.verdict = "Stale" /\ ~v.matches ) =>
                    /\ ForwardedOnHit(cn)
                    /\ cn.events[Len(cn.events)] = "forward" \/ cn.pc = "done"
                    /\ cn.up = IF HostPinned(req) THEN << Forwarded(req) >> ELSE <<>>
                    /\ HostPinned(req) <=> cn.pc = "await_forward"
                    /\ cache' = cache
              /\ ForwardedOnHit(cn) =>
                    /\ Count(cn.events, "forward") = 1
                    /\ Len(cn.up) <= 1
                    /\ cn.writes = <<>>
                    /\ client[c].pc = "await_forward" =>
                          /\ cache' = cache
                          /\ cn.up = client[c].up
                          /\ cn.pc \in { "done", "await_forward", "cancelled" } ]_vars

\* a stale entry that does not match the request, and a not storable one,
\* each answered by the upstream server through forward
C17_Witness ==
    \E c \in Clients :
        LET cl == client[c]
        IN  /\ ForwardedOnHit(cl)
            /\ cl.pc = "done" /\ cl.ok
            /\ Kinds(cl.up) = << "forward" >>
            /\ cl.up[1] = Forwarded(cl.req)
            /\ HasEntry(cache_key(cl.req))
            /\ Stored(cache_key(cl.req)) = cl.entry
            /\ \/ ~CachePolicy_is_storable(cl.entry.policy)
               \/ /\ cl.verdicts = << [at |-> "call", verdict |-> "Stale", matches |-> FALSE] >>
                  /\ "accept-language" \in DOMAIN cl.req.headers

\* the boxed future of a matching stale hit of client c is polled in this step
Updating(c) ==
    /\ client[c].mode = "revalidate"
    /\ client[c].pc = "boxed"
    /\ client'[c].pc \notin { "boxed", "cancelled" }

\* the plain request of a key that update_entry asks the policy with
PlainGet(key) == Request_get(Uri_origin(key))

\* C18 as claimed: on a matching stale hit one conditional request is sent
\* upstream.
C18_Revalidation ==
    \A c \in Clients :
        (client[c].mode = "revalidate" /\ client[c].pc \notin { "idle", "boxed" }) =>
            /\ Count(Kinds(client[c].up), "revalidate") = 1
            /\ HeaderMap_contains_key(client[c].up[1].request.headers, "if-none-match")

\* C18 amended: on a matching stale hit update_entry asks the stored policy
\* about a plain GET of the key with the pinned Host.  When that verdict is
\* Stale, the policy's revalidation request for the plain GET, carrying the
\* stored ETag in If-None-Match, is the one request sent upstream; of its
\* answer the entry is made that has the new policy and the old body when
\* the policy says NotModified and the new policy and the answer's body when
\* it says Modified; the entry is written under the key before
\* before_request is asked again, on that entry; after NotModified and
\* Fresh the client gets the body the store held.  When that verdict is
\* Fresh, no revalidation request is sent, nothing is written, and
\* before_request is asked again on the unchanged entry.
C18_RevalidationWhenStale ==
    [][ \A c \in Clients :
          LET cl  == client[c]
              cn  == client'[c]
              key == cache_key(cl.req)
              v0  == CachePolicy_before_request(cl.entry.policy, PlainGet(key), now)
          IN  /\ Updating(c) =>
                    /\ cl.up = <<>> /\ cl.writes = <<>>
                    /\ cl.verdicts = << [at |-> "call", verdict |-> "Stale", matches |-> TRUE] >>
                    /\ cache' = cache /\ cn.writes = <<>>
                    /\ cn.entry = cl.entry
                    /\ IF v0.verdict = "Stale"
                       THEN /\ cn.pc = "await_upstream"
                            /\ Kinds(cn.up) = << "revalidate" >>
                            /\ cn.up[1].via = "upstream"
                            /\ Pinned(cn.up[1].request)
                            /\ cn.up[1].request.method = "GET"
                            /\ cn.up[1].request.uri.path_and_query = { key }
                            /\ cn.up[1].request.headers["if-none-match"] =
                                   cl.entry.policy.res_headers["etag"]
                            /\ cn.up[1].request.headers["host"] = << Authority >>
                       ELSE /\ Count(Kinds(cn.up), "revalidate") = 0
                            /\ cn.verdicts[3] =
                                  Verdict("rerun", CachePolicy_before_request(cl.entry.policy,
                                                                              Normal(cl.req), now))
                            /\ SubSeq(cn.events, 1, 4) = << "read", "verdict", "update", "rerun" >>
              /\ (cl.mode = "revalidate" /\ Answered(c)) =>
                    /\ Kinds(cl.up) = << "revalidate" >>
                    /\ cl.writes = <<>>
                    /\ IF cn.err.kind = "WriteCache"
                       THEN cn.writes = <<>> /\ cache' = cache /\ cn.up = cl.up
                       ELSE \E res \in UpstreamAnswers(cl) :
                              LET a == CachePolicy_after_response(cl.entry.policy,
                                          CachePolicy_revalidation_request(cl.entry.policy,
                                                                           PlainGet(key)),
                                          PartsOf(res), now)
                                  entry == cn.writes[1].entry
                                  v == CachePolicy_before_request(entry.policy, Normal(cl.req), now)
                              IN  /\ Len(cn.writes) = 1
                                  /\ cn.writes[1].key = key
                                  /\ entry.policy = a.policy
                                  /\ a.verdict = "NotModified" => entry.body = cl.entry.body
                                  /\ a.verdict = "Modified" => entry.body = Buffered(res)
                                  /\ a.verdict = "NotModified" <=> res.status = 304
                                  /\ cache' = cacache_write_sync(cache, key,
                                                                 ciborium_into_writer(entry))
                                  /\ SubSeq(cn.events, 1, 6) =
                                        << "read", "verdict", "update", "revalidate", "write", "rerun" >>
                                  /\ cn.verdicts[Len(cn.verdicts)] = Verdict("rerun", v)
                                  /\ (a.verdict = "NotModified" /\ v.verdict = "Fresh") =>
                                        /\ cn.pc = "done" /\ cn.ok
                                        /\ cn.response.body = cl.entry.body
                                        /\ cn.up = cl.up ]_vars

\* a stale entry revalidated with its ETag, found not modified, written back
\* with its body and served
C18_Witness ==
    \E c \in Clients :
        LET cl == client[c]
        IN  /\ cl.mode = "revalidate"
            /\ cl.pc = "done" /\ cl.ok
            /\ cl.events = << "read", "verdict", "update", "revalidate", "write", "rerun", "ready" >>
            /\ Kinds(cl.up) = << "revalidate" >>
            /\ cl.up[1].request.headers["if-none-match"] = << ETag(origin) >>
            /\ Len(cl.writes) = 1
            /\ cl.writes[1].entry.policy.response_time > 0
            /\ cl.response.body = cl.writes[1].entry.body
            /\ cl.response.body.data = origin

\* the positions of x in seq
Positions(seq, x) == { i \in 1..Len(seq) : seq[i] = x }

\* C19: once an entry was fetched or updated and before_request asked again,
\* a Stale verdict sends the client's request to CacheProxy::forward and the
\* future never fetches or revalidates again: for one client request there
\* is at most one fetch or revalidation, at most one forward after it, so at
\* most two upstream requests, and at most one write.
C19_LoopSafety ==
    \A c \in Clients :
        LET cl == client[c]
            ks == Kinds(cl.up)
        IN  /\ Len(cl.up) <= 2
            /\ Count(ks, "fetch") + Count(ks, "revalidate") <= 1
            /\ Count(ks, "forward") <= 1
            /\ Len(ks) = 2 => ks[2] = "forward"
            /\ Len(cl.writes) <= 1
            /\ Count(cl.events, "rerun") <= 1
            /\ \A i \in Positions(cl.events, "rerun") :
                  /\ cl.pc \in { "await_forward", "done", "cancelled" }
                  /\ Len(cl.events) > i
                  /\ cl.events[i + 1] \in { "ready", "forward" }
                  /\ cl.events[i + 1] = "forward" <=>
                        cl.verdicts[Len(cl.verdicts)].verdict = "Stale"
                  /\ \A j \in (i + 1)..Len(cl.events) :
                        cl.events[j] \in { "forward", "ready", "drop" }
            /\ \A i \in 1..Len(cl.up) :
                  cl.up[i].kind = "forward" => cl.up[i] = Forwarded(cl.req)

\* an entry revalidated and written, found stale again for the request, and
\* the request forwarded: two upstream requests, one write
C19_Witness ==
    \E c \in Clients :
        LET cl == client[c]
        IN  /\ cl.pc = "done"
            /\ Kinds(cl.up) = << "revalidate", "forward" >>
            /\ Len(cl.writes) = 1
            /\ cl.verdicts[Len(cl.verdicts)] = [at |-> "rerun", verdict |-> "Stale", matches |-> TRUE]
            /\ cl.events = << "read", "verdict", "update", "revalidate", "write", "rerun",
                              "forward", "ready" >>

Encodings == { "gzip", "br" }

\* the requests that differ from r in their Accept-Encoding at most
EncodingVariants(r) ==
    { Normal(r) }
    \cup { [r EXCEPT !.headers = HeaderMap_insert(@, "accept-encoding", e)] : e \in Encodings }

\* two handlings that differ in the Accept-Encoding of the client's request
\* and of what was forwarded of it, and in nothing else
SameCaching(a, b) ==
    /\ a.pc = b.pc /\ a.mode = b.mode /\ a.entry = b.entry
    /\ a.verdicts = b.verdicts /\ a.events = b.events /\ a.writes = b.writes
    /\ a.ok = b.ok /\ a.err = b.err /\ a.response = b.response
    /\ Len(a.up) = Len(b.up)
    /\ \A i \in 1..Len(a.up) :
          /\ a.up[i].kind = b.up[i].kind
          /\ Normal(a.up[i].request) = Normal(b.up[i].request)

\* C20: cacheable requests that differ in their Accept-Encoding at most have
\* the same cache key, the path and query of the request (the empty string
\* when there is none); against the same store at the same time the call
\* reads the same entry, gets the same verdict and returns the same future;
\* and what a request in flight sends on a fetch or a revalidation, and the
\* key and the entry it writes, hold nothing of the client's Accept-Encoding.
C20_AcceptEncoding ==
    /\ \A r \in { x \in ClientRequests : Cacheable(x) } :
          \A r2 \in EncodingVariants(r) :
              /\ cache_key(normalized(r)) = cache_key(normalized(r2))
              /\ r.uri.path_and_query = { cache_key(normalized(r2)) }
              /\ cache_key(normalized([r2 EXCEPT !.uri.path_and_query = {}])) = ""
              /\ \A io_ok \in BOOLEAN :
                    SameCaching(CacheProxy_call(NoClient, r, cache, io_ok, now),
                                CacheProxy_call(NoClient, r2, cache, io_ok, now))
    /\ \A c \in Clients :
          LET cl == client[c]
          IN  (cl.pc # "idle" /\ Cacheable(cl.req)) =>
                /\ \A i \in 1..Len(cl.writes) :
                      /\ cl.writes[i].key = cache_key(Normal(cl.req))
                      /\ cl.req.uri.path_and_query = { cl.writes[i].key }
                      /\ ~HeaderMap_contains_key(cl.writes[i].entry.policy.req_headers,
                                                 "accept-encoding")
                /\ \A i \in 1..Len(cl.up) :
                      cl.up[i].kind \in { "fetch", "revalidate" } =>
                          /\ cl.up[i].request.headers["accept-encoding"] = << "gzip" >>
                          /\ DOMAIN cl.up[i].request.headers \subseteq
                                { "host", "user-agent", "if-none-match", "accept-encoding" }

\* a request with Accept-Encoding fetched, stored under its path with a
\* policy whose Vary names Accept-Encoding, and served from the entry
C20_Witness ==
    \E c \in Clients :
        LET cl == client[c]
        IN  /\ HeaderMap_get(cl.req.headers, "accept-encoding") = { "gzip" }
            /\ cl.pc = "done" /\ cl.ok
            /\ Len(cl.writes) = 1
            /\ cl.writes[1].key = "/a"
            /\ "accept-encoding" \in HeaderMap_get_all(cl.writes[1].entry.policy.res_headers, "vary")
            /\ cl.verdicts[Len(cl.verdicts)].verdict = "Fresh"
            /\ HasEntry("/a")

\* the names of the events of a handling
Events(cl) == { cl.events[i] : i \in 1..Len(cl.events) }

\* a body as the upstream server published it, decoded
DecodedUpstreamBody(b) == b.encoding = "identity" /\ b.data \in 1..origin

\* C21 as claimed: once a cacheable request has its response, the entry of
\* its key exists with a decoded upstream body, or the request was forwarded.
C21_EntryOrForwarded ==
    \A c \in Clients :
        LET cl == client[c]
            k  == cache_key(cl.req)
        IN  (cl.pc = "done" /\ Cacheable(cl.req)) =>
                \/ HasEntry(k) /\ DecodedUpstreamBody(Stored(k).body)
                \/ "forward" \in Events(cl)

\* C21 amended: a cacheable request whose future resolves to Ok either was
\* forwarded, or got the body of an entry of its key (the one the call read
\* or the one the future wrote) that is a decoded upstream body, the key
\* then holding such an entry; a future that resolves to Err without a
\* forward failed reading or decoding the store, asking upstream or writing,
\* and the response is the status of that error.
C21_EntryOrForwardedOrError ==
    \A c \in Clients :
        LET cl == client[c]
            k  == cache_key(cl.req)
        IN  (cl.pc = "done" /\ Cacheable(cl.req)) =>
                /\ (cl.ok /\ "forward" \notin Events(cl)) =>
                      /\ HasEntry(k)
                      /\ DecodedUpstreamBody(Stored(k).body)
                      /\ DecodedUpstreamBody(cl.entry.body)
                      /\ cl.response.body = cl.entry.body
                      /\ cl.writes # <<>> => cl.writes[1] = [key |-> k, entry |-> cl.entry]
                      /\ cl.verdicts[Len(cl.verdicts)].verdict = "Fresh"
                /\ (~cl.ok /\ "forward" \notin Events(cl)) =>
                      /\ cl.err.kind \in { "ReadCache", "Decode", "Upstream",
                                            "BoxedUpstream", "WriteCache" }
                      /\ cl.response.status = StatusOf(cl.err)
                      /\ cl.response.status \in { 500, 502 }
                /\ "forward" \in Events(cl) =>
                      /\ cl.ok => Kinds(cl.up)[Len(cl.up)] = "forward"
                      /\ ~cl.ok => cl.response.status \in { 400, 502 }

\* a miss whose gzip-coded answer was decoded, stored and served
C21_Witness ==
    \E c \in Clients :
        LET cl == client[c]
            k  == cache_key(cl.req)
        IN  /\ cl.pc = "done" /\ cl.ok /\ Cacheable(cl.req)
            /\ "forward" \notin Events(cl)
            /\ Len(cl.writes) = 1
            /\ HasEntry(k) /\ Stored(k) = cl.entry
            /\ cl.response.body = Stored(k).body
            /\ cl.response.body = Body(origin, "identity")

\* the variants of ProxyError
ErrorKinds ==
    { "MissingHost", "InvalidHost", "UnexpectedHost", "InvalidUri", "InvalidPath",
      "Upstream", "BoxedUpstream", "ReadCache", "WriteCache", "Decode" }

\* the status the error table gives a variant
TableStatus(kind) ==
    IF kind \in { "MissingHost", "InvalidHost", "UnexpectedHost", "InvalidUri", "InvalidPath" }
    THEN 400
    ELSE IF kind \in { "Upstream", "BoxedUpstream" } THEN 502
    ELSE IF kind \in { "ReadCache", "WriteCache", "Decode" } THEN 500
    ELSE 0

ErrorDetails == { "", "io", "other.example", "connect" }

\* the text/plain response of an error
IsErrorResponse(r, e) ==
    /\ r.status = TableStatus(e.kind)
    /\ r.status \in { 400, 500, 502 }
    /\ r.headers = [x \in { "content-type" } |-> << "text/plain" >>]
    /\ r.text = ProxyError_fmt(e)
    /\ r.text # ""

\* C22: map_result gives every variant of ProxyError the status of the
\* table (400 for the five request errors, 502 for Upstream and
\* BoxedUpstream, 500 for ReadCache, WriteCache and Decode) in an Ok
\* response with a text/plain body, and hands an Ok response on unchanged;
\* so every finished request has a response, the future's own when it
\* resolved to Ok and the error's when it resolved to Err.
C22_ErrorMap ==
    /\ \A k \in ErrorKinds, d \in ErrorDetails :
          IsErrorResponse(map_result(FALSE, NoResponse, ProxyError(k, d)), ProxyError(k, d))
    /\ \A c \in Clients :
          LET cl == client[c]
          IN  cl.pc = "done" =>
                /\ cl.response.status # 0
                /\ cl.ok => /\ cl.response = cl.result
                            /\ map_result(TRUE, cl.result, cl.err) = cl.result
                /\ ~cl.ok => /\ cl.err.kind \in ErrorKinds
                             /\ IsErrorResponse(cl.response, cl.err)

\* an undecodable entry answered with 500 and the text of the error
C22_Witness ==
    \E c \in Clients :
        /\ client[c].pc = "done" /\ ~client[c].ok
        /\ client[c].err.kind = "Decode"
        /\ client[c].response.status = 500
        /\ client[c].response.headers["content-type"] = << "text/plain" >>
        /\ client[c].response.text = "failed to decode cache entry: garbage"

\* the future of client c is dropped in this step, or fails before the
\* answer is buffered
DroppedOrFailed(c) ==
    /\ client[c].pc \in { "boxed", "await_upstream" }
    /\ \/ client'[c].pc = "cancelled"
       \/ client'[c].pc = "done" /\ client'[c].err.kind \in { "Upstream", "BoxedUpstream" }

\* C23: the store changes only in the step in which an upstream answer has
\* been received whole, body included, and then by the one write of the
\* entry made of it; a fetch or a revalidation that is dropped, or that
\* fails on the connection or while reading the body, has written nothing
\* and leaves the store as it is: no entry after a miss, the old entry after
\* a stale hit.
C23_CancelAndFailure ==
    [][ /\ cache' # cache =>
              \E c \in Clients :
                  LET cl == client[c]
                      cn == client'[c]
                  IN  /\ cl.pc = "await_upstream"
                      /\ Len(cn.writes) = Len(cl.writes) + 1
                      /\ Len(cn.events) >= Len(cl.events) + 3
                      /\ SubSeq(cn.events, 1, Len(cl.events) + 2) =
                            cl.events \o << "write", "rerun" >>
                      /\ cn.events[Len(cl.events) + 3] \in { "forward", "ready" }
                      /\ cn.writes = Append(cl.writes, cn.writes[Len(cn.writes)])
                      /\ \E res \in UpstreamAnswers(cl) :
                            cn.writes[Len(cn.writes)].entry.body \in { Buffered(res), cl.entry.body }
                      /\ cache' = cacache_write_sync(cache, cache_key(cl.req),
                                      ciborium_into_writer(cn.writes[Len(cn.writes)].entry))
        /\ \A c \in Clients :
              DroppedOrFailed(c) =>
                  /\ cache' = cache
                  /\ client[c].writes = <<>> /\ client'[c].writes = <<>>
                  /\ "write" \notin Events(client'[c])
                  /\ client[c].mode = "revalidate" =>
                        /\ client'[c].entry = client[c].entry
                        /\ Cardinality(Clients) = 1 =>
                              /\ HasEntry(cache_key(client[c].req))
                              /\ Stored(cache_key(client[c].req))' = client[c].entry
                  /\ (client[c].mode = "fetch" /\ Cardinality(Clients) = 1) =>
                        cache_key(client[c].req) \notin DOMAIN cache' ]_vars

\* a fetch dropped while the answer was awaited, and a revalidation failed
\* while the body was read, with the store as the call found it
C23_Witness ==
    \E c \in Clients :
        LET cl == client[c]
            k  == cache_key(cl.req)
        IN  /\ Kinds(cl.up) \in { << "fetch" >>, << "revalidate" >> }
            /\ cl.writes = <<>>
            /\ \/ /\ cl.pc = "cancelled" /\ cl.mode = "fetch"
                  /\ k \notin DOMAIN cache
               \/ /\ cl.pc = "done" /\ cl.err.kind = "BoxedUpstream" /\ cl.mode = "revalidate"
                  /\ HasEntry(k) /\ Stored(k) = cl.entry

\* a stored entry is one write as a whole: the policy of an answer and the
\* decoded body of the version that answer names
WholeEntry(e) ==
    /\ e.policy.status = 200
    /\ DecodedUpstreamBody(e.body)
    /\ e.policy.res_headers["etag"] = << ETag(e.body.data) >>

\* C24: requests for one key served at the same time are not coalesced.  A
\* call acts on the store as it is when it reads it: it finds a miss or
\* the whole entry of one earlier write, whatever the other requests are in
\* the middle of.  A request that found a miss sends its own fetch even when
\* another request has written the entry meanwhile; each answer buffered is
\* written by the request that received it, the key then holding exactly
\* that entry, and every change of the store is such a write, so that the
\* store ends with the entry written last.  A request answered from the
\* entry it produced gets the body of that entry, also when the store holds
\* another by then.
C24_NotCoalesced ==
    [][ /\ \A k \in DOMAIN cache : HasEntry(k) /\ WholeEntry(Stored(k))
        /\ \A c \in ConcClients :
              LET cl == client[c]
                  cn == client'[c]
                  k  == cache_key(cn.req)
              IN  /\ (cl.pc = "done" /\ cl.ok /\ cl.writes # <<>>
                                   /\ "forward" \notin Events(cl)) =>
                        /\ cl.entry = cl.writes[1].entry
                        /\ cl.response.body = cl.writes[1].entry.body
                  /\ Called(c) =>
                        /\ \A d \in ConcClients \ { c } : client'[d] = client[d]
                        /\ IF k \in DOMAIN cache
                           THEN cn.entry = Stored(k) /\ cn.mode # "fetch"
                           ELSE cn.pc = "boxed" /\ cn.mode = "fetch"
                  /\ (cl.pc = "boxed" /\ cl.mode = "fetch" /\ cn.pc # "cancelled"
                                     /\ cn # cl) =>
                        /\ cn.pc = "await_upstream"
                        /\ Kinds(cn.up) = << "fetch" >>
                        /\ cache' = cache
                  /\ (Answered(c) /\ cn.err.kind # "WriteCache") =>
                        /\ Len(cn.writes) = 1
                        /\ cn.writes[1].key = k
                        /\ WholeEntry(cn.writes[1].entry) \/
                              ~CachePolicy_is_storable(cn.writes[1].entry.policy)
                        /\ DOMAIN cache' = DOMAIN cache \cup { k }
                        /\ cache'[k] = ciborium_into_writer(cn.writes[1].entry)
                        /\ \A d \in ConcClients \ { c } : client'[d] = client[d]
        /\ cache' # cache =>
              \E c \in ConcClients : Answered(c) /\ Len(client'[c].writes) = 1 ]_vars

\* two requests that both found the miss, each fetched and wrote, one the
\* first version and one the second, each answered with its own body, the
\* store holding the entry written last
C24_Witness ==
    /\ \A c \in { 1, 2 } :
          /\ client[c].pc = "done" /\ client[c].ok
          /\ client[c].events = << "read", "fetch", "write", "rerun", "ready" >>
          /\ Kinds(client[c].up) = << "fetch" >>
          /\ client[c].response.body = client[c].writes[1].entry.body
    /\ client[1].response.body.data = 1
    /\ client[2].response.body.data = 2
    /\ Stored("/a") = client[2].writes[1].entry
    /\ Stored("/a") # client[1].writes[1].entry

(***************************************************************************)
(* Start of the DNS process.                                               *)
(***************************************************************************)
\* the upstream names a forward action refers to
ForwardNames(a) ==
    CASE a.kind = "forward"             -> a.upstream
      [] a.kind = "unix_srv_or_forward" -> a.forward.upstream
      [] OTHER                          -> <<>>

\* the upstream names a server's config refers to, in the order the router
\* is built: the entries of `actions` first, the default action last
RECURSIVE EntryNames(_, _)
EntryNames(actions, i) ==
    IF i > Len(actions) THEN <<>>
    ELSE ForwardNames(actions[i].action) \o EntryNames(actions, i + 1)

Referenced(cfg) == EntryNames(cfg.actions, 1) \o ForwardNames(cfg.default_action)

\* those of them the upstream table does not hold
Unknown(cfg) == SelectSeq(Referenced(cfg), LAMBDA n : n \notin DOMAIN upstream)

\* the servers whose config refers to an unknown upstream
BadServers == { n \in DOMAIN proc.cfg : Unknown(proc.cfg[n].action) # <<>> }

\* the task of a server was spawned
Spawned(n) == proc.srv[n].state # "none"

StartupRejectsUnknown ==
    /\ \A n \in BadServers : ~Spawned(n)
    /\ BadServers # {} => proc.pc \in { "building", "exited" }
    /\ (proc.pc = "exited" /\ BadServers # {}) =>
          /\ proc.exit = "FAILURE"
          /\ proc.ctx \in BadServers
          /\ proc.err = Unknown(proc.cfg[proc.ctx].action)[1]

\* C25: a server whose forward actions (default action, domain entry, inside
\* unix_srv_or_forward) name an upstream the table does not hold is never
\* spawned; the process ends, with exit code FAILURE and the error
\* UnknownUpstream of the first unknown name of the server run was building.
C25_UnknownUpstream ==
    /\ []StartupRejectsUnknown
    /\ (BadServers # {}) ~> (proc.pc = "exited" /\ proc.exit = "FAILURE")

\* s1 forwards to u1, ux, uy and s2 is sound: s2 was spawned first and was
\* serving when run came to s1 and returned UnknownUpstream(ux)
C25_Witness ==
    /\ proc.pc = "exited"
    /\ proc.exit = "FAILURE"
    /\ proc.ctx = "s1"
    /\ proc.err = "ux"
    /\ proc.cfg["s1"].action.default_action.kind = "forward"
    /\ proc.cfg["s1"].action.default_action.upstream = << "u1", "ux", "uy" >>
    /\ ~Spawned("s1")
    /\ proc.srv["s2"] = [state |-> "aborted", bound |-> Len(proc.cfg["s2"].listen),
                         joined |-> FALSE]

\* a listener of a configured server could not be bound
BindFailed == \E n \in DOMAIN proc.srv : proc.srv[n].state = "bind_failed"

\* C26: once a bind of any listener of any server has failed the process
\* ends with exit code FAILURE, whatever the other servers are doing.  The
\* join loop of run waits for every task, so this fails while another
\* server is serving.
C26_BindFailureAborts ==
    BindFailed ~> (proc.pc = "exited" /\ proc.exit = "FAILURE")

(***************************************************************************)
(* The certificate tool.                                                   *)
(***************************************************************************)
\* the files as the run found them call for new certificates
MustRegenerate ==
    \/ gen.old.state.kind = "missing"
    \/ gen.old.state.config_sha256 # gen.config.sha
    \/ ~gen.old.ca_file
    \/ gen.config.overwrite = "always"
    \/ gen.config.overwrite = "expired" /\ gen.old.state.expire <= gen.time

\* the state file is absent or holds a State
StateReadable == gen.old.state.kind # "garbage"

\* C27: a run whose state file is absent or holds a State generates exactly
\* when the state file is missing, the recorded digest differs from the
\* config's, the CA file is missing, or the policy asks for it (always; expired
\* with recorded expiry <= now); otherwise it skips and writes nothing.  A
\* generating run that ends well has written the CA certificate, the server
\* files and the state file; a run that cannot parse the state file fails
\* and writes no certificate.
C27_RegenerationDecision ==
    gen.decision # "" =>
        /\ StateReadable =>
              /\ gen.decision = "generate" <=> MustRegenerate
              /\ gen.decision = "skip" <=> ~MustRegenerate
        /\ gen.decision = "skip" =>
              /\ gen.pc = "skipped"
              /\ gen.writes = <<>>
              /\ gen.files = gen.old
        /\ gen.decision = "generate" =>
              /\ gen.pc \in { "write_ca", "write_servers", "write_state", "done", "failed" }
              /\ gen.pc = "done" =>
                    /\ SubSeq(gen.writes, Len(gen.writes) - 2, Len(gen.writes))
                           = << "ca_file", "servers", "state" >>
                    /\ gen.files.state = [kind |-> "state",
                                          expire |-> gen.time + gen.config.expire_secs,
                                          config_sha256 |-> gen.config.sha]
        /\ ~StateReadable =>
              /\ gen.decision = "error"
              /\ gen.pc = "failed"
              /\ gen.writes \in { <<>>, << "ca_dir" >> }
              /\ gen.files = [gen.old EXCEPT !.ca_dir = TRUE]

\* policy expired, the digest unchanged, the CA file in place and the recorded
\* expiry equal to now: the run generated and recorded the new expiry
C27_Witness ==
    /\ gen.pc = "done"
    /\ gen.config.overwrite = "expired"
    /\ gen.old.state.kind = "state"
    /\ gen.old.state.config_sha256 = gen.config.sha
    /\ gen.old.ca_file
    /\ gen.old.state.expire = gen.time
    /\ gen.time > 0
    /\ gen.writes = << "ca_file", "servers", "state" >>
    /\ gen.files.state.expire = gen.time + gen.config.expire_secs

(***************************************************************************)
(* The leases of an Upstream handle.                                       *)
(***************************************************************************)
\* the tasks whose lookup runs on a resolver instance
Looking == { t \in Tasks : task[t].pc = "looking" }

\* the tasks on the Err arm of Upstream::lookup: asking for, waiting for or
\* holding the write lease
Replacing == { t \in Tasks : task[t].pc \in { "want_write", "wait_write", "write_granted" } }

\* C28: a lookup in flight holds a read lease and runs on the instance the
\* handle holds now; the write lease is held by at most one task, with no
\* read lease beside it, and only tasks whose lookup timed out ask for it;
\* the step that replaces the instance is taken by such a task while no
\* lookup is in flight, and puts one newly built instance in its place.
C28_ExclusiveReplacement ==
    [][ LET h == upstream[Target]
        IN  /\ \A t \in Looking : t \in h.readers /\ task[t].inst = h.resolver
            /\ h.readers = Looking
            /\ Cardinality(h.writer) <= 1
            /\ h.writer # {} => h.readers = {}
            /\ h.writer \subseteq Replacing
            /\ \A t \in Replacing : task[t].expired
            /\ upstream'[Target].resolver # h.resolver =>
                  /\ Looking = {}
                  /\ h.readers = {}
                  /\ built' = built + 1
                  /\ upstream'[Target].resolver.id = built'
                  /\ \E t \in Replacing :
                        /\ task[t].pc \in { "want_write", "write_granted" }
                        /\ task'[t].pc = "returned"
                        /\ task'[t].result = Upstream_timeout_error
                        /\ \A o \in Tasks \ { t } :
                              task'[o].pc = "looking" =>
                                  task'[o].inst = upstream'[Target].resolver
      ]_vars

\* two lookups timed out on the same instance: one task has replaced it and
\* returned, the other is about to replace the new instance, which nobody uses
C28_Witness ==
    \E t, o \in Tasks :
        /\ task[t].pc = "returned" /\ task[t].expired
        /\ task[o].pc = "want_write" /\ task[o].expired
        /\ task[o].inst = task[t].inst
        /\ upstream[Target].resolver.id # task[o].inst.id
        /\ upstream[Target].readers = {}

(***************************************************************************)
(* Domains configured more than once.                                      *)
(***************************************************************************)
\* the entries that list the domain d, with d's own bytes
EntriesOf(d) == { i \in 1..Len(config.actions) : d \in EntryDomains(i) }

\* the one of them that is inserted last
LastEntryOf(d) == CHOOSE i \in EntriesOf(d) : \A k \in EntriesOf(d) : k <= i

\* d is listed twice in one entry or in two entries
ConfiguredTwice(d) ==
    \/ Cardinality(EntriesOf(d)) > 1
    \/ \E i \in EntriesOf(d) :
          \E j, k \in 1..Len(config.actions[i].domains) :
              j # k /\ config.actions[i].domains[j] = d /\ config.actions[i].domains[k] = d

\* C29: whatever domains are listed more than once, the router is built; the
\* node of every configured domain holds the action of the last entry that
\* lists it, and a query for that name is dispatched to that entry's action.
C29_LastInsertionWins ==
    /\ DomainAction_from_config(config, upstream).ok
    /\ router = DomainAction_from_config(config, upstream).val
    /\ \A d \in ConfiguredDomains :
          /\ Rev(d) \in DOMAIN router.domains
          /\ router.domains[Rev(d)] = { LastEntryOf(d) }
          /\ (Dispatched /\ QName = d) => selected = { LastEntryOf(d) }

\* "a." is listed by the first and by the second entry: a query for it is
\* dispatched to the action of the second
C29_Witness ==
    /\ Dispatched
    /\ Len(config.actions) = 2
    /\ QName = << <<97>> >>
    /\ ConfiguredTwice(QName)
    /\ EntriesOf(QName) = { 1, 2 }
    /\ selected = { 2 }

(***************************************************************************)
(* A response that could not be sent.                                      *)
(***************************************************************************)
\* the handler returned the ResponseInfo made by send_response_failed
SendFailed == info = { failed_response_info }

\* C30: a handler hands exactly one response to send_response, on the gate's
\* paths and on those of Block, Fixed and Forward, and completes with that
\* step; it returns the ResponseInfo of the response when the send went well
\* and, when the send failed, a ResponseInfo made locally with code ServFail,
\* whatever the code of the response was.  Nothing is sent a second time.
C30_SendFailure ==
    /\ pc # "done" => sent = <<>> /\ info = {}
    /\ pc = "done" =>
          /\ Len(sent) = 1
          /\ \/ info = { ResponseInfo_of(sent[1]) }
             \/ SendFailed
          /\ SendFailed =>
                \A i \in info : i.response_code = "ServFail" /\ i.local

\* every upstream of a Forward action failed, the last NoRecordsFound being
\* NXDomain: the NXDomain response could not be sent and the handler
\* returned ServFail
C30_Witness ==
    /\ AllFailed
    /\ Len(fwd.results) = 2
    /\ Len(sent) = 1
    /\ sent[1].response_code = "NXDomain"
    /\ SendFailed

(***************************************************************************)
(* The accept loop of the proxy.                                           *)
(***************************************************************************)
\* the connections whose task is still serving
Serving(a) == { c \in 1..Len(a.conns) : a.conns[c].state = "serving" }

\* C31: the accept loop never ends, on the TCP and on the Unix listener: an
\* accept error is logged and leaves every connection as it is, the end of a
\* connection, with Ok or with a serve error, changes that connection's
\* task alone, and after either the loop can accept again.
C31_AcceptLoop ==
    /\ [](acc.pc = "accepting")
    /\ [](Len(acc.conns) < MaxConns => ENABLED AcceptOk)
    /\ [][ /\ acc'.pc = "accepting"
           /\ acc'.listen = acc.listen
           /\ Len(acc'.conns) >= Len(acc.conns)
           /\ acc'.errors # acc.errors => acc'.conns = acc.conns
           /\ \A c \in 1..Len(acc.conns) :
                 /\ acc.conns[c].state # "serving" => acc'.conns[c] = acc.conns[c]
                 /\ acc'.conns[c] # acc.conns[c] =>
                       /\ acc'.errors = acc.errors
                       /\ Len(acc'.conns) = Len(acc.conns)
                       /\ \A d \in 1..Len(acc.conns) :
                             d # c => acc'.conns[d] = acc.conns[d]
         ]_vars

\* on the Unix listener the first connection ended with a serve error, an
\* accept failed after that, and the connection accepted next is being served
\* beside an older one
C31_Witness ==
    /\ acc.listen = "unix"
    /\ Len(acc.conns) = 3
    /\ acc.conns[1].state = "serve_error"
    /\ acc.conns[2] = [state |-> "serving", after |-> 0]
    /\ acc.conns[3] = [state |-> "serving", after |-> 1]
    /\ acc.errors = 1

(***************************************************************************)
(* One response for one request; the loop of Forward.                      *)
(***************************************************************************)
\* the Forward action is handling the request or has handled it
InForward == pc \in { "lookup", "done" } /\ selected # {} /\ SelAction.kind = "forward"

\* the lookups of the request that returned Ok
OkResults == { j \in 1..Len(fwd.results) : fwd.results[j].kind = "Ok" }

\* C32: a request is answered by exactly one send_response call, made in
\* the step that completes its handler: none was made while the handler
\* runs, one has been made when it is done, and no step adds a second.  In
\* Forward the first successful lookup ends the loop and its answer is the
\* one response; the failure response is sent only when no lookup succeeded.
C32_ExactlyOneSend ==
    /\ [](Len(sent) = IF pc = "done" THEN 1 ELSE 0)
    /\ [](InForward /\ pc = "done" =>
            /\ OkResults \subseteq { Len(fwd.results) }
            /\ OkResults # {} => sent[1].answers = fwd.results[Len(fwd.results)].records
            /\ OkResults = {} => sent[1] = Forward_failure(fwd.code))
    /\ [][ sent' # sent =>
             \/ sent = <<>> /\ Len(sent') = 1 /\ pc # "done" /\ pc' = "done"
             \/ pc = "done" /\ pc' = "idle" /\ sent' = <<>>
         ]_vars

\* a Forward with two upstreams whose first lookup succeeded: one response,
\* with records, and the second upstream was not asked
C32_Witness ==
    /\ Finished("forward")
    /\ Len(SelAction.resolvers) = 2
    /\ Len(fwd.results) = 1
    /\ Len(queried) = 1
    /\ Len(sent) = 1
    /\ Len(sent[1].answers) = 2
    /\ info = { ResponseInfo_of(sent[1]) }

\* C33: a lookup that failed, with NoRecordsFound or otherwise, is followed
\* by the lookup on the next upstream of the list; the loop ends at the
\* first Ok, and the response then has the records of that lookup and the
\* code NoError, whatever code an earlier NoRecordsFound left.
C33_ForwardContinues ==
    InForward =>
        /\ \A j \in 1..Len(fwd.results) :
              /\ fwd.results[j].kind = "Ok" => j = Len(fwd.results) /\ pc = "done"
              /\ (fwd.results[j].kind # "Ok" /\ j < Len(SelAction.resolvers)) =>
                    /\ Len(queried) >= j + 1
                    /\ queried[j + 1] = SelAction.resolvers[j + 1]
        /\ Len(queried) <= Len(fwd.results) + 1
        /\ (pc = "done" /\ OkResults # {}) =>
              /\ Len(sent) = 1
              /\ sent[1].response_code = "NoError"
              /\ sent[1].answers = fwd.results[Len(fwd.results)].records
              /\ sent[1].answers # <<>>

\* the first upstream answered NXDomain, the second was asked and had
\* records: they are sent with NoError
C33_Witness ==
    /\ Finished("forward")
    /\ Len(fwd.results) = 2
    /\ fwd.results[1].kind = "NoRecordsFound"
    /\ fwd.results[1].response_code = "NXDomain"
    /\ fwd.code = { "NXDomain" }
    /\ fwd.results[2].kind = "Ok"
    /\ queried = SelAction.resolvers
    /\ Len(sent) = 1
    /\ sent[1].response_code = "NoError"
    /\ sent[1].answers = fwd.results[2].records

(***************************************************************************)
(* Counting the resolver instances of a handle; progress of the lookups.   *)
(***************************************************************************)
\* the instances built for the handle Target: the one of Upstream::new and
\* the ones built since (the other handles were built once each)
BuiltFor == built - (Cardinality(UpstreamNames) - 1)

\* no lookup is under way
Quiet == \A t \in Tasks : task[t].pc \in { "idle", "returned" }

\* C34: the instances built for a handle are one more than the lookups that
\* timed out and have replaced the instance; when no lookup is under way that
\* is one more than the lookups that timed out.  A lookup that returns within
\* its deadline, with a result or an error, builds nothing and leaves the
\* instance in place.
C34_ConstructionCount ==
    /\ [](BuiltFor + Cardinality(Replacing) = 1 + timeouts)
    /\ [](Quiet => BuiltFor = 1 + timeouts)
    /\ [](upstream[Target].resolver.id = IF BuiltFor = 1 THEN 1 ELSE built)
    /\ [][ \A t \in Tasks :
             (task[t].pc = "looking" /\ task'[t].pc = "returned") =>
                 /\ built' = built
                 /\ upstream'[Target].resolver = upstream[Target].resolver
                 /\ timeouts' = timeouts
         ]_vars

\* three lookups were made: two timed out, one after the other, one got an
\* error from the resolver within its deadline; three instances were built
C34_Witness ==
    /\ Quiet
    /\ calls = MaxCalls
    /\ timeouts = 2
    /\ BuiltFor = 3
    /\ \E t \in Tasks :
          task[t].pc = "returned" /\ ~task[t].expired /\ task[t].result.kind = "Timeout"

\* a lookup is under way for task t
Underway(t) == task[t].pc \notin { "idle", "returned" }

\* C35: every lookup that was called returns, whatever the other tasks do on
\* the same handle.
C35_NoDeadlock ==
    \A t \in Tasks : Underway(t) ~> (task[t].pc = "returned")

\* one task holds the write lease it had to wait for while the other waits
\* in the queue for a read lease
C35_Witness ==
    \E t, o \in Tasks :
        /\ task[t].pc = "write_granted"
        /\ task[o].pc = "wait_read"
        /\ upstream[Target].writer = { t }
        /\ upstream[Target].queue # <<>>

(***************************************************************************)
(* What a request that fails leaves in the store.                          *)
(***************************************************************************)
\* the request of client c ended with an error about its Host header
HostRejected(c) ==
    /\ client[c].pc = "done"
    /\ ~client[c].ok
    /\ client[c].err.kind \in { "MissingHost", "UnexpectedHost" }

\* C36: a request that ends in MissingHost or UnexpectedHost has written no
\* entry, on any path.
C36_HostErrorLeavesCache ==
    \A c \in Clients : HostRejected(c) => client[c].writes = <<>>

\* the request of client c ended because the store could not be read or the
\* bytes under the key could not be decoded
ReadFailed(cl) == cl.err.kind \in { "ReadCache", "Decode" }

\* the call of client c is made in this step, for a cacheable request
CalledCacheable(c) ==
    /\ client[c].pc = "idle"
    /\ client'[c].pc # "idle"
    /\ should_cache_req(client'[c].req)

\* C38: a cacheable request whose read of the store fails, or whose key
\* holds bytes that are no entry, ends in the call with ReadCache or Decode
\* and status 500, nothing was sent upstream and the store is as it was;
\* the miss path is taken only when the key holds nothing.
C38_ReadFailure ==
    /\ [](\A c \in Clients :
            ReadFailed(client[c]) =>
               /\ client[c].pc = "done"
               /\ ~client[c].ok
               /\ client[c].response.status = 500
               /\ client[c].up = <<>>
               /\ client[c].writes = <<>>
               /\ client[c].events = << "read", "ready" >>)
    /\ [][ \A c \in Clients :
             LET cn == client'[c]
                 k  == cache_key(cn.norm)
             IN  /\ (CalledCacheable(c) /\ k \in DOMAIN cache /\ cache[k].kind # "cbor") =>
                       ReadFailed(cn)
                 /\ (CalledCacheable(c) /\ ReadFailed(cn)) =>
                       /\ cache' = cache
                       /\ cn.err.kind = "Decode" =>
                             k \in DOMAIN cache /\ cache[k].kind # "cbor"
                 /\ (CalledCacheable(c) /\ cn.mode = "fetch") =>
                       /\ k \notin DOMAIN cache
                       /\ cn.pc = "boxed"
                       /\ cn.up = <<>>
                 /\ (client[c].mode # "fetch" /\ cn.mode = "fetch") => CalledCacheable(c)
          ]_vars

\* a request found the store unreadable while the key holds an entry: it
\* ended with ReadCache and the entry is still there
C38_Witness ==
    \E c \in Clients :
        /\ client[c].pc = "done"
        /\ client[c].err.kind = "ReadCache"
        /\ client[c].response.status = 500
        /\ client[c].up = <<>>
        /\ HasEntry(cache_key(client[c].norm))

(***************************************************************************)
(* Entries that are not storable.                                          *)
(***************************************************************************)
\* the key k holds an entry whose policy is not storable
HoldsNonStorable(k) == HasEntry(k) /\ ~CachePolicy_is_storable(Stored(k).policy)

\* the call of client c read an entry that is not storable
ReadNonStorable(cl) ==
    /\ cl.pc # "idle"
    /\ should_cache_req(cl.req)
    /\ cl.mode = ""
    /\ cl.entry # NoEntry
    /\ ~CachePolicy_is_storable(cl.entry.policy)

\* a cacheable request that arrives while its key holds an entry that is not
\* storable is handed to forward, or ends with ReadCache, and writes nothing
LaterRequestsForwarded ==
    /\ [][ \A c \in DOMAIN client :
             LET cn == client'[c]
                 k  == cache_key(cn.norm)
             IN  (CalledCacheable(c) /\ HoldsNonStorable(k)) =>
                     /\ cache' = cache
                     /\ cn.writes = <<>>
                     /\ \/ cn.err.kind = "ReadCache"
                        \/ /\ ReadNonStorable(cn)
                           /\ cn.entry = Stored(k)
                           /\ cn.events[2] = "forward"
                           /\ cn.pc \in { "await_forward", "done" }
          ]_vars
    /\ [](\A c \in DOMAIN client :
            ReadNonStorable(client[c]) =>
                /\ client[c].writes = <<>>
                /\ Kinds(client[c].up) \in { <<>>, << "forward" >> }
                /\ client[c].pc \in { "await_forward", "done", "cancelled" })

\* C37 as stated: once a key holds an entry that is not storable, every later
\* cacheable request for the key is handed to forward and writes nothing, and
\* the entry under the key is never replaced.
C37_NeverReplaced ==
    /\ LaterRequestsForwarded
    /\ [][ \A k \in DOMAIN cache : HoldsNonStorable(k) => cache'[k] = cache[k] ]_vars

\* C37: once a key holds an entry that is not storable, every cacheable
\* request for the key that arrives later is handed to forward, or ends with
\* ReadCache, and writes nothing; the entry is replaced only by the write of
\* a request whose call had read the store before the entry was written,
\* having found a miss or a storable entry.
C37_StickyForLaterRequests ==
    /\ LaterRequestsForwarded
    /\ [][ \A k \in DOMAIN cache :
             (HoldsNonStorable(k) /\ cache'[k] # cache[k]) =>
                 \E c \in DOMAIN client :
                     /\ Answered(c)
                     /\ cache_key(client[c].norm) = k
                     /\ client[c].mode \in { "fetch", "revalidate" }
                     /\ client[c].mode = "revalidate" =>
                           CachePolicy_is_storable(client[c].entry.policy)
                     /\ client[c].entry # Stored(k)
                     /\ cache'[k] = ciborium_into_writer(client'[c].writes[1].entry)
          ]_vars

\* one request wrote an entry that is not storable; the next request for the
\* key read that entry, was forwarded and answered by the upstream server,
\* wrote nothing, and the entry is still under the key
C37_Witness ==
    \E c, d \in DOMAIN client :
        /\ client[c].pc = "done"
        /\ Len(client[c].writes) = 1
        /\ HoldsNonStorable("/a")
        /\ Stored("/a") = client[c].writes[1].entry
        /\ client[d].pc = "done" /\ client[d].ok
        /\ client[d].events = << "read", "forward", "ready" >>
        /\ client[d].entry = Stored("/a")
        /\ client[d].writes = <<>>

(***************************************************************************)
(* The version of the body the store holds, requests served at the same    *)
(* time.                                                                   *)
(***************************************************************************)
\* the version of the upstream content the key k holds
StoredVersion(k) == Stored(k).body.data

\* C39 as stated: a write never replaces an entry holding a newer upstream
\* body with an entry holding an older one.
C39_MonotoneVersion ==
    [][ \A k \in DOMAIN cache :
          (HasEntry(k) /\ cache'[k].kind = "cbor") =>
              cache'[k].entry.body.data >= StoredVersion(k) ]_vars

\* C39: the store is last-writer-wins.  The request that buffered an answer
\* writes its entry over whatever the key holds, also over a newer body.  The
\* body it writes is the one of its own answer, of a version the server held
\* since its request went out, or on NotModified the body it read in its
\* call, so never older than what the request itself read; the version
\* under the key goes back only when the store was written by another
\* request after the writer's call had read it.
C39_LastWriterWins ==
    [][ \A c \in ConcClients :
          LET cl == client[c]
              cn == client'[c]
              k  == cache_key(cl.norm)
          IN  (Answered(c) /\ cn.err.kind # "WriteCache") =>
                  LET e == cn.writes[1].entry
                  IN  /\ cache'[k] = ciborium_into_writer(e)
                      /\ \/ e.body.data \in cl.since..origin
                         \/ cl.mode = "revalidate" /\ e.body = cl.entry.body
                      /\ cl.mode = "revalidate" => e.body.data >= cl.entry.body.data
                      /\ (HasEntry(k) /\ e.body.data < StoredVersion(k)) =>
                            /\ cl.entry # Stored(k)
                            /\ cl.mode = "revalidate" =>
                                  cl.entry.body.data < StoredVersion(k)
      ]_vars

\* two requests both found the miss and fetched; the server published the
\* second version; the second request was answered with it and stored it,
\* then the first stored the first version it had been answered with
C39_Witness ==
    /\ origin = 2
    /\ \A c \in ConcClients :
          /\ client[c].pc = "done" /\ client[c].ok
          /\ client[c].mode = "fetch"
          /\ Len(client[c].writes) = 1
    /\ client[1].writes[1].entry.body.data = 1
    /\ client[2].writes[1].entry.body.data = 2
    /\ Stored("/a") = client[1].writes[1].entry
    /\ StoredVersion("/a") = 1

(***************************************************************************)
(* A run of the certificate tool that fails, and the run after it.         *)
(***************************************************************************)
\* the files written by a run, as a set
Written(writes) == { writes[i] : i \in 1..Len(writes) }

\* the run before this one failed after it had written a certificate file
FailedAfterWriting ==
    /\ gen.prev.pc = "failed"
    /\ gen.prev.decision = "generate"
    /\ Written(gen.prev.writes) \cap { "ca_file", "servers" } # {}

\* C40: the state file is written only after the CA certificate and every
\* server key and certificate; and when a generating run has failed after
\* writing files, the next run with the same config generates again.
C40_CrashConsistency ==
    /\ \A i \in 1..Len(gen.writes) :
          gen.writes[i] = "state" =>
              { "ca_file", "servers" } \subseteq Written(SubSeq(gen.writes, 1, i - 1))
    /\ (FailedAfterWriting /\ gen.decision # "") => gen.decision = "generate"

====
